---------------------------- MODULE Spec2Model ----------------------------
(***************************************************************************)
(* A model of the eduvulcan Home Assistant integration                     *)
(* (src/custom_components/eduvulcan): the calendar event builders of       *)
(* calendar.py, the refresh cycle of coordinator.py / api.py and the       *)
(* calendar queries that read the published snapshot.                      *)
(*                                                                         *)
(* Python values are tagged records.  A str is a sequence of characters    *)
(* (one-character strings; a character outside ASCII is written as its     *)
(* code point, "U0119"), so that parsing, upper-casing and formatting are  *)
(* computed and not assumed.  A date is its proleptic Gregorian ordinal    *)
(* (date.toordinal()), a time is seconds since midnight, and an instant    *)
(* is seconds since 1970-01-01T00:00:00Z.                                  *)
(***************************************************************************)
EXTENDS Integers, Sequences, FiniteSets, TLC

VARIABLES
    data,          \* coordinator.data: the published snapshot, or None
    last_error,    \* coordinator.last_error
    account_info,  \* coordinator.account_info
    pc,            \* position of the refresh task in async_fetch_all
    fetched,       \* locals of the running async_fetch_all (lessons, homework, ...)
    cycle,         \* number of refresh cycles started so far
    outcome,       \* how the last finished _async_update_data ended
    query,         \* the last calendar query: its inputs, what it read and its result
    item,          \* builder harness: the raw record handed to a builder
    built          \* builder harness: what the builder did with it

vars == <<data, last_error, account_info, pc, fetched, cycle, outcome, query, item, built>>

-----------------------------------------------------------------------------
(* Python values *)

None == [t |-> "none"]

Bool(b) == [t |-> "bool", b |-> b]

Num(i) == [t |-> "int", i |-> i]

Str(s) == [t |-> "str", s |-> s]

Date(o) == [t |-> "date", ord |-> o]

Time(sec) == [t |-> "time", sec |-> sec]

\* A datetime: wall-clock date and time of day, and its tzinfo: "naive" (none),
\* "fixed" (a fixed UTC offset of off seconds) or the name of a time zone.
DateTime(o, sec, tz, off) ==
    [t |-> "datetime", ord |-> o, sec |-> sec, tz |-> tz, off |-> off]

Dict(f) == [t |-> "dict", f |-> f]

\* An object exposing named attributes (a decoded pydantic record).
Obj(f) == [t |-> "obj", f |-> f]

\* An exception leaving the function that was called.
Raise(exc) == [t |-> "raise", exc |-> exc]

IsRaise(v) == v.t = "raise"

NoFields == [k \in {} |-> None]

\* bool(v): Python truthiness.
Truthy(v) ==
    CASE v.t = "none" -> FALSE
      [] v.t = "bool" -> v.b
      [] v.t = "int" -> v.i # 0
      [] v.t = "str" -> v.s # <<>>
      [] v.t = "dict" -> DOMAIN v.f # {}
      [] v.t = "list" -> v.xs # <<>>
      [] OTHER -> TRUE

\* a or b
Or(a, b) == IF Truthy(a) THEN a ELSE b

-----------------------------------------------------------------------------
(* Characters and strings *)

Digits == {"0", "1", "2", "3", "4", "5", "6", "7", "8", "9"}

DigitVal == ("0" :> 0) @@ ("1" :> 1) @@ ("2" :> 2) @@ ("3" :> 3) @@ ("4" :> 4)
            @@ ("5" :> 5) @@ ("6" :> 6) @@ ("7" :> 7) @@ ("8" :> 8) @@ ("9" :> 9)

DigitChar == <<"0", "1", "2", "3", "4", "5", "6", "7", "8", "9">>

Lower == <<"a", "b", "c", "d", "e", "f", "g", "h", "i", "j", "k", "l", "m",
           "n", "o", "p", "q", "r", "s", "t", "u", "v", "w", "x", "y", "z">>

Upper == <<"A", "B", "C", "D", "E", "F", "G", "H", "I", "J", "K", "L", "M",
           "N", "O", "P", "Q", "R", "S", "T", "U", "V", "W", "X", "Y", "Z">>

\* str.upper() of one character.
UpperChar(c) ==
    IF \E n \in 1..Len(Lower) : Lower[n] = c
    THEN Upper[CHOOSE n \in 1..Len(Lower) : Lower[n] = c]
    ELSE c

\* str.upper()
StrUpper(s) == [n \in 1..Len(s) |-> UpperChar(s[n])]

Whitespace == {" ", "\t", "\n"}

\* str.strip()
RECURSIVE StrStrip(_)
StrStrip(s) ==
    IF s = <<>> THEN s
    ELSE IF Head(s) \in Whitespace THEN StrStrip(Tail(s))
    ELSE IF s[Len(s)] \in Whitespace THEN StrStrip(SubSeq(s, 1, Len(s) - 1))
    ELSE s

\* str.isdigit(): the decimal digits and the digit characters that are not
\* decimal, of which superscript two (U+00B2) stands here.
StrIsDigit(s) == s # <<>> /\ \A n \in 1..Len(s) : s[n] \in Digits \cup {"U00B2"}

AllDigits(s) == \A n \in 1..Len(s) : s[n] \in Digits

\* The number a sequence of decimal digits writes.
RECURSIVE DigitsVal(_)
DigitsVal(s) ==
    IF s = <<>> THEN 0 ELSE 10 * DigitsVal(SubSeq(s, 1, Len(s) - 1)) + DigitVal[s[Len(s)]]

\* int(s) of a str: the number, or ValueError.
IntOfStr(s) ==
    LET body == StrStrip(s)
    IN  IF body # <<>> /\ AllDigits(body) THEN Num(DigitsVal(body)) ELSE Raise("ValueError")

\* A non-negative number written with at least `width` digits.
RECURSIVE Pad(_, _)
Pad(n, width) ==
    IF n < 10 /\ width <= 1 THEN <<DigitChar[n + 1]>>
    ELSE Pad(n \div 10, width - 1) \o <<DigitChar[(n % 10) + 1]>>

-----------------------------------------------------------------------------
(* Civil dates: datetime.date as the standard library computes it *)

IsLeap(y) == y % 4 = 0 /\ (y % 100 # 0 \/ y % 400 = 0)

DaysInMonth(y, m) ==
    IF m = 2 THEN (IF IsLeap(y) THEN 29 ELSE 28)
    ELSE IF m \in {4, 6, 9, 11} THEN 30 ELSE 31

RECURSIVE DaysBeforeMonth(_, _)
DaysBeforeMonth(y, m) ==
    IF m = 1 THEN 0 ELSE DaysBeforeMonth(y, m - 1) + DaysInMonth(y, m - 1)

DaysBeforeYear(y) ==
    LET p == y - 1 IN p * 365 + (p \div 4) - (p \div 100) + (p \div 400)

\* date(y, m, d).toordinal()
Ymd2Ord(y, m, d) == DaysBeforeYear(y) + DaysBeforeMonth(y, m) + d

\* The month and day of the day of a year that r1 days precede.
MonthAndDay(year, r1) ==
    LET month == CHOOSE m \in 1..12 :
                     /\ DaysBeforeMonth(year, m) <= r1
                     /\ r1 < DaysBeforeMonth(year, m) + DaysInMonth(year, m)
    IN  [y |-> year, m |-> month, d |-> r1 - DaysBeforeMonth(year, month) + 1]

\* date.fromordinal(n) as year, month, day.
Ord2Ymd(n) ==
    LET n0 == n - 1
        n400 == n0 \div 146097
        r400 == n0 % 146097
        n100 == r400 \div 36524
        r100 == r400 % 36524
        n4 == r100 \div 1461
        r4 == r100 % 1461
        n1 == r4 \div 365
        r1 == r4 % 365
        year == n400 * 400 + 1 + n100 * 100 + n4 * 4 + n1
    IN  IF n1 = 4 \/ n100 = 4 THEN [y |-> year - 1, m |-> 12, d |-> 31]
        ELSE MonthAndDay(year, r1)

\* date.isoweekday(): 1 is Monday, 7 is Sunday.
IsoWeekday(o) == ((o - 1) % 7) + 1

\* date.isoformat()
FormatYmd(c) == Pad(c.y, 4) \o <<"-">> \o Pad(c.m, 2) \o <<"-">> \o Pad(c.d, 2)

DateIsoFormat(o) == FormatYmd(Ord2Ymd(o))

-----------------------------------------------------------------------------
(* ISO-8601 parsing: date.fromisoformat, time.fromisoformat and            *)
(* datetime.fromisoformat as CPython 3.11+ parse (positions count from 1;  *)
(* a read past the end of the string sees the terminator "NUL").           *)

At(s, p) == IF p >= 1 /\ p <= Len(s) THEN s[p] ELSE "NUL"

\* n digits at position p: the number they write, or -1.
ParseDigits(s, p, n) ==
    IF \A k \in p..(p + n - 1) : At(s, k) \in Digits
    THEN DigitsVal(SubSeq(s, p, p + n - 1))
    ELSE -1

ParseFail == [ok |-> FALSE, y |-> 0, m |-> 0, d |-> 0]

\* The Monday of ISO week 1 of a year, as an ordinal.
IsoWeek1Monday(y) ==
    LET first_day == Ymd2Ord(y, 1, 1)
        first_weekday == (first_day + 6) % 7
    IN  IF first_weekday > 3 THEN first_day - first_weekday + 7
        ELSE first_day - first_weekday

\* ISO year, week and day to a calendar date.
IsoToYmd(y, week, day) ==
    LET first_weekday == (Ymd2Ord(y, 1, 1) + 6) % 7
        has53 == first_weekday = 3 \/ (first_weekday = 2 /\ IsLeap(y))
    IN  IF y < 1 \/ week <= 0 \/ week > 53 \/ (week = 53 /\ ~has53) \/ day <= 0 \/ day >= 8
        THEN ParseFail
        ELSE LET c == Ord2Ymd(IsoWeek1Monday(y) + (week - 1) * 7 + day - 1)
             IN  [ok |-> TRUE, y |-> c.y, m |-> c.m, d |-> c.d]

\* The date at the head of s, where the date is taken to be len characters:
\* YYYY-MM-DD, YYYYMMDD, YYYY-Www[-D] or YYYYWww[D].
ParseIsoformatDate(s, len) ==
    LET year == ParseDigits(s, 1, 4)
        sep == At(s, 5) = "-"
        q == IF sep THEN 6 ELSE 5
    IN  IF year < 0 THEN ParseFail
        ELSE IF At(s, q) = "W"
        THEN LET week == ParseDigits(s, q + 1, 2)
                 r == q + 3
             IN  IF week < 0 THEN ParseFail
                 ELSE IF r - 1 < len
                 THEN IF sep /\ At(s, r) # "-" THEN ParseFail
                      ELSE LET day == ParseDigits(s, IF sep THEN r + 1 ELSE r, 1)
                           IN  IF day < 0 THEN ParseFail ELSE IsoToYmd(year, week, day)
                 ELSE IsoToYmd(year, week, 1)
        ELSE LET month == ParseDigits(s, q, 2)
                 r == q + 2
             IN  IF month < 0 THEN ParseFail
                 ELSE IF sep /\ At(s, r) # "-" THEN ParseFail
                 ELSE LET day == ParseDigits(s, IF sep THEN r + 1 ELSE r, 2)
                      IN  IF day < 0 THEN ParseFail
                          ELSE [ok |-> TRUE, y |-> year, m |-> month, d |-> day]

\* date(y, m, d) refuses a year, month or day out of range.
ValidYmd(c) ==
    /\ c.ok
    /\ c.y >= 1 /\ c.y <= 9999
    /\ c.m >= 1 /\ c.m <= 12
    /\ c.d >= 1 /\ c.d <= DaysInMonth(c.y, c.m)

\* date(y, m, d) of the parsed fields: a date, or ValueError.
DateOfFields(c) == IF ValidYmd(c) THEN Date(Ymd2Ord(c.y, c.m, c.d)) ELSE Raise("ValueError")

\* date.fromisoformat(s): a date, or ValueError.
date_fromisoformat(s) ==
    DateOfFields(IF Len(s) \in {7, 8, 10} THEN ParseIsoformatDate(s, Len(s)) ELSE ParseFail)

\* [HH[:MM[:SS[.ffffff]]]] from position p up to (not including) pend.  rv is 0
\* when the text ended there, 1 when something follows, negative on a failure.
\* The fraction is validated and dropped: times count whole seconds.
ParseFraction(s, p, pend, vals) ==
    LET to_parse == IF pend - p >= 6 THEN 6 ELSE pend - p
        digits == ParseDigits(s, p, to_parse)
        rest == {k \in (p + to_parse)..(Len(s) + 1) : At(s, k) \notin Digits}
        stop == CHOOSE k \in rest : \A j \in rest : k <= j
    IN  IF to_parse <= 0 \/ digits < 0 THEN [rv |-> -3, v |-> vals]
        ELSE [rv |-> IF At(s, stop) # "NUL" THEN 1 ELSE 0, v |-> vals]

RECURSIVE ParseHhMmSs(_, _, _, _, _, _)
ParseHhMmSs(s, p, pend, i, has_separator, vals) ==
    IF i = 3 THEN ParseFraction(s, p, pend, vals)
    ELSE LET v == ParseDigits(s, p, 2)
             c == At(s, p + 2)
             q == p + 3
             sepr == IF i = 0 THEN c = ":" ELSE has_separator
             got == [vals EXCEPT ![i + 1] = v]
         IN  IF v < 0 THEN [rv |-> -3, v |-> vals]
             ELSE IF q >= pend THEN [rv |-> IF c # "NUL" THEN 1 ELSE 0, v |-> got]
             ELSE IF sepr /\ c = ":" THEN ParseHhMmSs(s, q, pend, i + 1, sepr, got)
             ELSE IF c \in {".", ","} THEN ParseFraction(s, q, pend, got)
             ELSE IF ~sepr THEN ParseHhMmSs(s, q - 1, pend, i + 1, sepr, got)
             ELSE [rv |-> -4, v |-> got]

TimeFail == [ok |-> FALSE, h |-> 0, m |-> 0, sec |-> 0, aware |-> FALSE, off |-> 0]

\* Where the UTC offset of a time starts: the first "Z", "+" or "-" from
\* position p on, or the end of s.
TzPos(s, p) ==
    LET marks == {k \in p..Len(s) : s[k] \in {"Z", "+", "-"}}
    IN  IF marks = {} THEN Len(s) + 1 ELSE CHOOSE k \in marks : \A j \in marks : k <= j

\* The UTC offset z parsed after the sign at tzpos, added to the time naive.
TimeWithOffset(s, tzpos, naive, z) ==
    IF z.rv # 0 THEN TimeFail
    ELSE [naive EXCEPT !.aware = TRUE,
                       !.off = (IF s[tzpos] = "-" THEN -1 ELSE 1)
                               * (z.v[1] * 3600 + z.v[2] * 60 + z.v[3])]

\* The time of day r parsed up to tzpos, and the UTC offset that follows it.
TimeWithZone(s, tzpos, r) ==
    LET pend == Len(s) + 1
        naive == [ok |-> TRUE, h |-> r.v[1], m |-> r.v[2], sec |-> r.v[3],
                  aware |-> FALSE, off |-> 0]
    IN  IF r.rv < 0 THEN TimeFail
        ELSE IF tzpos = pend THEN (IF r.rv = 1 THEN TimeFail ELSE naive)
        ELSE IF s[tzpos] = "Z"
        THEN (IF tzpos # Len(s) THEN TimeFail ELSE [naive EXCEPT !.aware = TRUE])
        ELSE TimeWithOffset(s, tzpos, naive,
                            ParseHhMmSs(s, tzpos + 1, pend, 0, TRUE, <<0, 0, 0>>))

\* The time of day (and UTC offset) written from position p to the end of s.
ParseIsoformatTime(s, p) ==
    IF p > Len(s) THEN TimeFail
    ELSE TimeWithZone(s, TzPos(s, p), ParseHhMmSs(s, p, TzPos(s, p), 0, TRUE, <<0, 0, 0>>))

\* time(h, m, s, tzinfo=timezone(offset)) refuses a field out of range.
ValidTime(c) ==
    /\ c.ok
    /\ c.h <= 23 /\ c.m <= 59 /\ c.sec <= 59
    /\ c.off > -86400 /\ c.off < 86400

\* time(h, m, s) of the parsed fields: a time, or ValueError.
TimeOfFields(c) ==
    IF ValidTime(c) THEN Time(c.h * 3600 + c.m * 60 + c.sec) ELSE Raise("ValueError")

\* time.fromisoformat(s): a time, or ValueError.  A leading "T" is allowed.
time_fromisoformat(s) == TimeOfFields(ParseIsoformatTime(s, IF At(s, 1) = "T" THEN 2 ELSE 1))

\* Where the date of an ISO datetime ends: the separator is the character after.
FindIsoformatDatetimeSeparator(s) ==
    LET len == Len(s)
        nondigit == {k \in 8..(len + 1) : At(s, k) \notin Digits}
        idx == CHOOSE k \in nondigit : \A j \in nondigit : k <= j
    IN  IF len = 7 THEN 7
        ELSE IF At(s, 5) = "-"
        THEN IF At(s, 6) = "W"
             THEN IF len < 8 THEN -1
                  ELSE IF len > 8 /\ At(s, 9) = "-"
                  THEN IF len = 9 THEN -1
                       ELSE IF len > 10 /\ At(s, 11) \in Digits THEN 8
                       ELSE 10
                  ELSE 8
             ELSE 10
        ELSE IF At(s, 5) = "W"
        THEN IF idx - 1 < 9 THEN idx - 1
             ELSE IF (idx - 1) % 2 = 0 THEN 7 ELSE 8
        ELSE 8

\* datetime(y, m, d, h, m, s, tzinfo) of the parsed fields: a datetime, or ValueError.
DateTimeOfFields(c, tm) ==
    IF ValidYmd(c) /\ ValidTime(tm)
    THEN DateTime(Ymd2Ord(c.y, c.m, c.d), tm.h * 3600 + tm.m * 60 + tm.sec,
                  IF tm.aware THEN "fixed" ELSE "naive", tm.off)
    ELSE Raise("ValueError")

\* The datetime written in s, whose date ends at position loc.
DateTimeSplitAt(s, loc) ==
    DateTimeOfFields(IF Len(s) < 7 \/ loc < 0 THEN ParseFail ELSE ParseIsoformatDate(s, loc),
                     IF Len(s) > loc THEN ParseIsoformatTime(s, loc + 2)
                     ELSE [TimeFail EXCEPT !.ok = TRUE])

\* datetime.fromisoformat(s): a datetime, or ValueError.
datetime_fromisoformat(s) == DateTimeSplitAt(s, FindIsoformatDatetimeSeparator(s))

\* str.replace("Z", "+00:00")
RECURSIVE ReplaceZ(_)
ReplaceZ(s) ==
    IF s = <<>> THEN s
    ELSE (IF Head(s) = "Z" THEN <<"+", "0", "0", ":", "0", "0">> ELSE <<Head(s)>>)
         \o ReplaceZ(Tail(s))

-----------------------------------------------------------------------------
(* Time zones and instants *)

\* The ordinal of the last Sunday of a month.
LastSunday(y, m) ==
    LET last == Ymd2Ord(y, m, DaysInMonth(y, m)) IN last - (IsoWeekday(last) % 7)

\* The time zones a Home Assistant instance is configured with in this model.
TimeZones == {"UTC", "Europe/Warsaw"}

\* tz.utcoffset() of a wall-clock time, in seconds.  Europe/Warsaw keeps summer
\* time from the last Sunday of March, 02:00, to the last Sunday of October,
\* 03:00 (an ambiguous or skipped wall-clock time reads with fold=0).
ZoneOffset(tz, o, sec) ==
    IF tz = "Europe/Warsaw"
    THEN LET y == Ord2Ymd(o).y
             from == LastSunday(y, 3)
             to == LastSunday(y, 10)
             summer == /\ (o > from \/ (o = from /\ sec >= 3 * 3600))
                       /\ (o < to \/ (o = to /\ sec < 3 * 3600))
         IN  IF summer THEN 7200 ELSE 3600
    ELSE 0

\* A datetime carrying the tzinfo tz ("naive": none; "fixed": a fixed offset).
DateTimeIn(o, sec, tz) == DateTime(o, sec, tz, 0)

\* datetime.utcoffset() of an aware datetime.
UtcOffset(dt) == IF dt.tz = "fixed" THEN dt.off ELSE ZoneOffset(dt.tz, dt.ord, dt.sec)

\* Seconds from 1970-01-01T00:00:00Z to a wall-clock time at a UTC offset.
Instant(o, sec, off) == (o - Ymd2Ord(1970, 1, 1)) * 86400 + sec - off

\* dt_util.as_utc(value): the instant of a datetime; a naive one is read in the
\* default (configured) time zone.
as_utc(dt, tz) ==
    IF dt.tz = "naive" THEN Instant(dt.ord, dt.sec, ZoneOffset(tz, dt.ord, dt.sec))
    ELSE Instant(dt.ord, dt.sec, UtcOffset(dt))

\* datetime + timedelta(seconds=n), 0 <= n: wall-clock arithmetic.
DateTimePlus(dt, n) ==
    [dt EXCEPT !.ord = dt.ord + ((dt.sec + n) \div 86400), !.sec = (dt.sec + n) % 86400]

_normalize_event_datetime(value, tz) ==
    IF value.t = "datetime" THEN as_utc(value, tz)
    ELSE Instant(value.ord, 0, ZoneOffset(tz, value.ord, 0))

-----------------------------------------------------------------------------
(* Field accessors *)

HasKey(v, key) == v.t \in {"dict", "obj"} /\ key \in DOMAIN v.f

\* _get_value passing over a candidate whose value is unset or empty.
RECURSIVE GetValueSkippingUnset(_, _)
GetValueSkippingUnset(v, keys) ==
    IF keys = <<>> THEN None
    ELSE IF HasKey(v, Head(keys)) /\ Truthy(v.f[Head(keys)]) THEN v.f[Head(keys)]
    ELSE GetValueSkippingUnset(v, Tail(keys))

RECURSIVE _get_value(_, _)
_get_value(v, keys) ==
    IF keys = <<>> THEN None
    ELSE IF HasKey(v, Head(keys)) THEN v.f[Head(keys)]
    ELSE _get_value(v, Tail(keys))

RECURSIVE _get_nested_value(_, _)
_get_nested_value(v, keys) ==
    IF keys = <<>> THEN v
    ELSE IF v.t = "none" THEN None
    ELSE _get_nested_value(IF HasKey(v, Head(keys)) THEN v.f[Head(keys)] ELSE None,
                           Tail(keys))

\* str(v), as an f-string or str() renders a value.  The repr of a mapping, an
\* object or a time is not spelled out: one token stands for it.
PyStr(v) ==
    CASE v.t = "str" -> v.s
      [] v.t = "none" -> <<"N", "o", "n", "e">>
      [] v.t = "bool" -> IF v.b THEN <<"T", "r", "u", "e">> ELSE <<"F", "a", "l", "s", "e">>
      [] v.t = "int" -> IF v.i < 0 THEN <<"-">> \o Pad(0 - v.i, 1) ELSE Pad(v.i, 1)
      [] v.t = "date" -> DateIsoFormat(v.ord)
      [] OTHER -> <<"<", v.t, ">">>

-----------------------------------------------------------------------------
(* Date and time coercion *)

\* try: return parsed / except ValueError: return None
NoneIfRaised(parsed) == IF IsRaise(parsed) THEN None ELSE parsed

_coerce_time_value(value) ==
    IF value.t = "time" THEN value
    ELSE IF value.t = "datetime" THEN Time(value.sec)
    ELSE IF value.t = "str" THEN NoneIfRaised(time_fromisoformat(value.s))
    ELSE None

\* The two attempts of _coerce_date_value letting the second ValueError out.
FirstParsedDateUncaught(d, dt) ==
    IF ~IsRaise(d) THEN d
    ELSE IF ~IsRaise(dt) THEN Date(dt.ord)
    ELSE dt

\* The two attempts of _coerce_date_value: the date d parsed from the text,
\* else the date of the datetime dt parsed from it, else nothing.
FirstParsedDate(d, dt) ==
    IF ~IsRaise(d) THEN d
    ELSE IF ~IsRaise(dt) THEN Date(dt.ord)
    ELSE None

\* _coerce_date_value(value) of a str.
_coerce_date_value(s) ==
    FirstParsedDate(date_fromisoformat(s), datetime_fromisoformat(ReplaceZ(s)))

\* _normalize_weekday_value reading every weekday in 0..6 as zero-based.
WeekdayZeroBasedFirst(value) ==
    IF value.t = "none" THEN None
    ELSE IF value.t = "str" /\ ~StrIsDigit(StrStrip(value.s)) THEN None
    ELSE LET n == CASE value.t = "str" -> IntOfStr(value.s)
                    [] value.t = "int" -> value
                    [] value.t = "bool" -> Num(IF value.b THEN 1 ELSE 0)
                    [] OTHER -> Raise("TypeError")
         IN  IF IsRaise(n) THEN n
             ELSE IF 0 <= n.i /\ n.i <= 6 THEN Num(n.i + 1)
             ELSE IF 1 <= n.i /\ n.i <= 7 THEN n
             ELSE None

_normalize_weekday_value(value) ==
    IF value.t = "none" THEN None
    ELSE IF value.t = "str" /\ ~StrIsDigit(StrStrip(value.s)) THEN None
    ELSE LET n == CASE value.t = "str" -> IntOfStr(value.s)
                    [] value.t = "int" -> value
                    [] value.t = "bool" -> Num(IF value.b THEN 1 ELSE 0)
                    [] OTHER -> Raise("TypeError")
         IN  IF IsRaise(n) THEN n
             ELSE IF 1 <= n.i /\ n.i <= 7 THEN n
             ELSE IF 0 <= n.i /\ n.i <= 6 THEN Num(n.i + 1)
             ELSE None

\* _resolve_lesson_date moving an explicit date to the weekday signal within
\* its week.
DateShiftedToWeekday(date_value, parsed_date, raw_week_start, normalized_weekday) ==
    LET week_start == IF raw_week_start.t = "datetime" THEN Date(raw_week_start.ord)
                      ELSE raw_week_start
        explicit == IF date_value.t = "datetime" THEN Date(date_value.ord)
                    ELSE IF date_value.t = "date" THEN date_value
                    ELSE parsed_date
    IN  IF IsRaise(normalized_weekday) THEN normalized_weekday
        ELSE IF Truthy(explicit) /\ Truthy(normalized_weekday)
        THEN Date(explicit.ord + (normalized_weekday.i - IsoWeekday(explicit.ord)))
        ELSE IF Truthy(explicit) THEN explicit
        ELSE IF week_start.t = "date" /\ Truthy(normalized_weekday)
        THEN Date(week_start.ord + (normalized_weekday.i - 1))
        ELSE None

\* The date _resolve_lesson_date picks from the signals it has read: the
\* explicit date (parsed_date when it is text), else the week anchor moved to
\* the weekday.
DateOfSignals(date_value, parsed_date, raw_week_start, normalized_weekday) ==
    LET week_start == IF raw_week_start.t = "datetime" THEN Date(raw_week_start.ord)
                      ELSE raw_week_start
    IN  IF date_value.t = "datetime" THEN Date(date_value.ord)
        ELSE IF date_value.t = "date" THEN date_value
        ELSE IF Truthy(parsed_date) THEN parsed_date
        ELSE IF IsRaise(normalized_weekday) THEN normalized_weekday
        ELSE IF week_start.t = "date" /\ Truthy(normalized_weekday)
        THEN Date(week_start.ord + (normalized_weekday.i - 1))
        ELSE None

_resolve_lesson_date(it) ==
    LET date_value == _get_value(it, <<"date_", "date", "dateAt", "DateAt">>)
        weekday_value == _get_value(it, <<"day", "weekday", "day_of_week", "dayOfWeek">>)
        raw_week_start == _get_value(it, <<"week_start", "weekStart", "week_start_date",
                                           "weekStartDate">>)
    IN  DateOfSignals(date_value,
                      IF date_value.t = "str" THEN _coerce_date_value(date_value.s) ELSE None,
                      raw_week_start,
                      _normalize_weekday_value(weekday_value))

-----------------------------------------------------------------------------
(* Lesson state classifier *)

\* value in {0, 1, 4}: set membership hashes the value (a mapping is
\* unhashable) and compares by ==, under which False == 0 and True == 1.
InCancelCodes(value) ==
    CASE value.t = "int" -> Bool(value.i \in {0, 1, 4})
      [] value.t = "bool" -> Bool(TRUE)
      [] value.t = "dict" -> Raise("TypeError")
      [] OTHER -> Bool(FALSE)

\* The substitution change type _is_cancelled_lesson looks at.
ChangeTypeOf(substitution) ==
    Or(_get_nested_value(substitution, <<"change", "type">>),
       _get_nested_value(substitution, <<"Change", "Type">>))

_is_cancelled_lesson(it) ==
    LET substitution == _get_value(it, <<"substitution", "Substitution">>)
        change_type == ChangeTypeOf(substitution)
        coded == InCancelCodes(change_type)
        absence == _get_value(substitution, <<"class_absence", "classAbsence", "ClassAbsence">>)
        flag == _get_value(it, <<"cancelled", "canceled", "is_cancelled", "is_canceled",
                                 "isCancelled", "isCanceled">>)
        status == _get_value(it, <<"status">>)
    IN  IF IsRaise(coded) THEN coded
        ELSE IF coded.b THEN Bool(TRUE)
        ELSE IF absence = Bool(TRUE) THEN Bool(TRUE)
        ELSE IF Truthy(flag) THEN Bool(TRUE)
        ELSE Bool(status.t = "str" /\ StrUpper(status.s) = <<"C", "A", "N", "C", "E", "L", "L", "E", "D">>)

_is_substitution_lesson(it) ==
    LET substitution == _get_value(it, <<"substitution", "Substitution">>)
        flag == _get_value(it, <<"substitution", "is_substitution", "isSubstitution",
                                 "replacement", "is_replacement", "isReplacement">>)
        status == _get_value(it, <<"status">>)
    IN  \/ Truthy(substitution)
        \/ Truthy(flag)
        \/ status.t = "str" /\ StrUpper(status.s) \in {<<"S", "U", "B", "S", "T", "I", "T", "U", "T", "I", "O", "N">>, <<"R", "E", "P", "L", "A", "C", "E", "M", "E", "N", "T">>}

-----------------------------------------------------------------------------
(* Event descriptions *)

\* teacher.<name>: the attribute, or AttributeError.
GetAttr(v, name) == IF v.t = "obj" /\ name \in DOMAIN v.f THEN v.f[name] ELSE Raise("AttributeError")

\* teacher.get(name)
DictGet(v, name) == IF name \in DOMAIN v.f THEN v.f[name] ELSE None

\* full or None
StrOrNone(full) == IF full # <<>> THEN Str(full) ELSE None

_teacher_name(teacher) ==
    IF ~Truthy(teacher) THEN None
    ELSE IF teacher.t = "dict"
    THEN LET display_name == Or(Or(DictGet(teacher, "display_name"),
                                   DictGet(teacher, "displayName")),
                                DictGet(teacher, "DisplayName"))
             name == Or(Or(DictGet(teacher, "name"), DictGet(teacher, "Name")), Str(<<>>))
             surname == Or(Or(DictGet(teacher, "surname"), DictGet(teacher, "Surname")),
                           Str(<<>>))
         IN  IF Truthy(display_name) THEN display_name
             ELSE StrOrNone(StrStrip(PyStr(name) \o <<" ">> \o PyStr(surname)))
    ELSE LET display_name == GetAttr(teacher, "display_name")
             name == GetAttr(teacher, "name")
             surname == GetAttr(teacher, "surname")
         IN  IF IsRaise(display_name) THEN display_name
             ELSE IF Truthy(display_name) THEN display_name
             ELSE IF IsRaise(name) THEN name
             ELSE IF IsRaise(surname) THEN surname
             ELSE Str(PyStr(name) \o <<" ">> \o PyStr(surname))

\* _add_line(lines, label, value): the lines after the call.
_add_line(lines, label, value) ==
    IF value.t = "none" \/ value = Str(<<>>) THEN lines
    ELSE Append(lines, label \o <<":", " ">> \o PyStr(value))

\* separator.join(parts), each part a str value.
RECURSIVE Join(_, _)
Join(separator, parts) ==
    IF parts = <<>> THEN <<>>
    ELSE IF Len(parts) = 1 THEN parts[1].s
    ELSE parts[1].s \o separator \o Join(separator, Tail(parts))

\* The list of description lines a helper has filled.
Lines(lines) == [t |-> "lines", lines |-> lines]

\* The teacher line _add_schedule_description adds to its lines, from the
\* names of the three teachers in the order they were read.
TeacherLines(lines, t1, t2, t3) ==
    LET teacher_names == SelectSeq(<<t1, t2, t3>>, Truthy)
        label == IF Len(teacher_names) > 1 THEN <<"N", "a", "u", "c", "z", "y", "c", "i", "e", "l", "e">> ELSE <<"N", "a", "u", "c", "z", "y", "c", "i", "e", "l">>
    IN  IF IsRaise(t1) THEN t1
        ELSE IF IsRaise(t2) THEN t2
        ELSE IF IsRaise(t3) THEN t3
        ELSE IF teacher_names = <<>> THEN Lines(lines)
        ELSE IF \E n \in 1..Len(teacher_names) : teacher_names[n].t # "str"
        THEN Raise("TypeError")
        ELSE Lines(_add_line(lines, label, Str(Join(<<",", " ">>, teacher_names))))

\* The lines _add_schedule_description appends to an empty list, or what it raises.
_add_schedule_description(it) ==
    LET substitution == _get_value(it, <<"substitution", "Substitution">>)
        teacher_source == IF Truthy(substitution) THEN substitution ELSE it
        t1 == _teacher_name(_get_value(teacher_source,
                  <<"teacher_primary", "teacherPrimary", "TeacherPrimary">>))
        t2 == _teacher_name(_get_value(teacher_source,
                  <<"teacher_secondary", "teacherSecondary", "TeacherSecondary">>))
        t3 == _teacher_name(_get_value(teacher_source,
                  <<"teacher_secondary2", "teacherSecondary2", "TeacherSecondary2">>))
        absence == Or(Or(Or(_get_nested_value(substitution, <<"teacher_absence_effect_name">>),
                            _get_nested_value(substitution, <<"TeacherAbsenceEffectName">>)),
                         _get_nested_value(it, <<"teacher_absence_effect_name">>)),
                      _get_nested_value(it, <<"TeacherAbsenceEffectName">>))
        reason == Or(Or(Or(_get_nested_value(substitution, <<"reason">>),
                           _get_nested_value(substitution, <<"Reason">>)),
                        _get_nested_value(it, <<"reason">>)),
                     _get_nested_value(it, <<"Reason">>))
    IN  TeacherLines(_add_line(_add_line(<<>>, <<"P", "o", "w", "U00F3", "d", " ", "n", "i", "e", "o", "b", "e", "c", "n", "o", "U015B", "c", "i">>, absence),
                               <<"P", "o", "w", "U00F3", "d">>, reason),
                     t1, t2, t3)

\* The line _add_homework_description and _add_exam_description append.
_add_homework_description(it) ==
    LET content == _get_value(it, <<"content", "description">>)
    IN  Lines(IF Truthy(content) THEN <<PyStr(content)>> ELSE <<>>)

\* "\n".join(lines) of lines that are character sequences.
RECURSIVE JoinLines(_)
JoinLines(lines) ==
    IF Len(lines) = 1 THEN lines[1] ELSE lines[1] \o <<"\n">> \o JoinLines(Tail(lines))

\* "\n".join(lines) if lines else None
DescriptionOf(lines) ==
    IF IsRaise(lines) THEN lines
    ELSE IF lines.lines = <<>> THEN None
    ELSE Str(JoinLines(lines.lines))

_build_event_description(kind, it) ==
    DescriptionOf(IF kind = "schedule" THEN _add_schedule_description(it)
                  ELSE _add_homework_description(it))

-----------------------------------------------------------------------------
(* Event builders *)

\* CalendarEvent(summary=..., start=..., end=..., description=..., location=...)
CalendarEvent(summary, start, end, description, location) ==
    [t |-> "event", summary |-> summary, start |-> start, end |-> end,
     description |-> description, location |-> location]

\* datetime.combine(date_value, time_value, tzinfo=tz)
Combine(date_value, time_value, tz) == DateTimeIn(date_value.ord, time_value.sec, tz)

\* What _build_lesson_event returns or raises, from the values it computes
\* in the order it computes them.
LessonEvent(cancelled, time_slot, start_time, end_time, summary, date_value, tz, description, location) ==
    IF IsRaise(cancelled) THEN cancelled
    ELSE IF cancelled.b THEN None
    ELSE IF ~Truthy(time_slot) \/ ~Truthy(start_time) \/ ~Truthy(end_time) THEN None
    ELSE IF IsRaise(date_value) THEN date_value
    ELSE IF ~Truthy(date_value) THEN None
    ELSE IF IsRaise(description) THEN description
    ELSE CalendarEvent(summary, Combine(date_value, start_time, tz),
                       Combine(date_value, end_time, tz), description, location)

_build_lesson_event(it, tz) ==
    LET substitution == _get_value(it, <<"substitution", "Substitution">>)
        base_subject == Or(_get_nested_value(it, <<"subject", "name">>),
                           _get_nested_value(it, <<"Subject", "Name">>))
        substitution_subject == Or(_get_nested_value(substitution, <<"subject", "name">>),
                                   _get_nested_value(substitution, <<"Subject", "Name">>))
        subject_name == IF Truthy(substitution_subject) THEN substitution_subject
                        ELSE base_subject
        room_code == Or(Or(Or(_get_nested_value(substitution, <<"room", "code">>),
                              _get_nested_value(substitution, <<"Room", "Code">>)),
                           _get_nested_value(it, <<"room", "code">>)),
                        _get_nested_value(it, <<"Room", "Code">>))
        time_slot == _get_value(it, <<"time_slot", "timeSlot", "TimeSlot">>)
        plain == Or(Or(subject_name, _get_value(it, <<"event", "Event">>)), Str(<<"L", "e", "k", "c", "j", "a">>))
        summary == IF _is_substitution_lesson(it)
                   THEN Str(PyStr(plain) \o <<" ", "(", "Z", "a", "s", "t", "U0119", "p", "s", "t", "w", "o", ")">>)
                   ELSE plain
        location == IF Truthy(room_code) THEN Str(<<"S", "a", "l", "a", " ">> \o PyStr(room_code)) ELSE None
    IN  LessonEvent(_is_cancelled_lesson(it), time_slot,
                    _coerce_time_value(_get_value(time_slot, <<"start", "Start">>)),
                    _coerce_time_value(_get_value(time_slot, <<"end", "End">>)),
                    summary, _resolve_lesson_date(it), tz,
                    _build_event_description("schedule", it), location)

_is_vacation_item(it) ==
    /\ Truthy(_get_value(it, <<"name", "Name">>))
    /\ Truthy(_get_value(it, <<"date_from", "dateFrom", "From">>))
    /\ Truthy(_get_value(it, <<"date_to", "dateTo", "To">>))

\* A vacation bound as _build_vacation_event reads it.
VacationBound(value) ==
    IF value.t = "datetime" THEN Date(value.ord)
    ELSE IF value.t = "str" THEN _coerce_date_value(value.s)
    ELSE value

\* _build_vacation_event ending the event on date_to itself.
VacationEventEndingOnDateTo(name, start_date, end_date) ==
    IF start_date.t # "date" \/ end_date.t # "date" THEN None
    ELSE CalendarEvent(Str(PyStr(name)), start_date, end_date, None, None)

\* The all-day event of a vacation from its name and its coerced bounds.
VacationEvent(name, start_date, end_date) ==
    IF start_date.t # "date" \/ end_date.t # "date" THEN None
    ELSE CalendarEvent(Str(PyStr(name)), start_date, Date(end_date.ord + 1), None, None)

_build_vacation_event(it) ==
    VacationEvent(Or(_get_value(it, <<"name", "Name">>), Str(<<"D", "z", "i", "e", "n", " ", "w", "o", "l", "n", "y">>)),
                  VacationBound(_get_value(it, <<"date_from", "dateFrom", "From">>)),
                  VacationBound(_get_value(it, <<"date_to", "dateTo", "To">>)))

\* The single-day all-day event of a homework or exam record: start_date is
\* what the record gave (or nothing), and start_date + timedelta(days=1) is
\* defined for a date only.
DeadlineEvent(summary, deadline, description, today) ==
    LET given == IF deadline.t = "datetime" THEN Date(deadline.ord) ELSE deadline
        start_date == IF Truthy(given) THEN given ELSE Date(today)
    IN  IF start_date.t # "date" THEN Raise("TypeError")
        ELSE CalendarEvent(summary, start_date, Date(start_date.ord + 1), description, None)

_build_homework_event(it, today) ==
    LET subject_name == _get_nested_value(it, <<"subject", "name">>)
        summary == IF Truthy(subject_name)
                   THEN Str(PyStr(subject_name) \o <<" ", "U2013", " ", "Z", "a", "d", "a", "n", "i", "e">>)
                   ELSE Str(<<"Z", "a", "d", "a", "n", "i", "e">>)
        deadline == Or(_get_value(it, <<"deadline", "deadlineAt">>),
                       _get_value(it, <<"date_", "date", "dateAt">>))
    IN  DeadlineEvent(summary, deadline, _build_event_description("homework", it), today)

_build_exam_event(it, today) ==
    LET subject_name == _get_nested_value(it, <<"subject", "name">>)
        summary == IF Truthy(subject_name)
                   THEN Str(PyStr(subject_name) \o <<" ", "U2013", " ", "S", "p", "r", "a", "w", "d", "z", "i", "a", "n">>)
                   ELSE Str(<<"S", "p", "r", "a", "w", "d", "z", "i", "a", "n">>)
        deadline == _get_value(it, <<"deadline", "deadlineAt">>)
    IN  DeadlineEvent(summary, deadline, _build_event_description("exams", it), today)

_coerce_event_datetime(value, all_day, tz) ==
    IF value.t = "datetime"
    THEN LET aware == IF value.tz = "naive" THEN [value EXCEPT !.tz = tz] ELSE value
         IN  IF all_day THEN Date(aware.ord) ELSE aware
    ELSE IF value.t = "date"
    THEN (IF all_day THEN value ELSE DateTimeIn(value.ord, 0, tz))
    ELSE None

_build_generic_event(it, all_day, tz) ==
    LET summary == Or(_get_value(it, <<"summary", "title", "subject", "name">>),
                      Str(<<"W", "y", "d", "a", "r", "z", "e", "n", "i", "e">>))
        description == _get_value(it, <<"description", "content", "details">>)
        start_value == _get_value(it, <<"start", "start_date", "start_datetime", "date",
                                        "date_", "dateAt">>)
        end_value == _get_value(it, <<"end", "end_date", "end_datetime">>)
        start == _coerce_event_datetime(start_value, all_day, tz)
        given_end == _coerce_event_datetime(end_value, all_day, tz)
        end == IF given_end.t # "none" THEN given_end
               ELSE IF all_day THEN Date(start.ord + 1)
               ELSE DateTimePlus(start, 3600)
    IN  IF start.t = "none" THEN None
        ELSE CalendarEvent(Str(PyStr(summary)), start, end,
                           IF Truthy(description) THEN Str(PyStr(description)) ELSE None,
                           None)

\* CALENDARS: the all_day flag of each calendar kind.
AllDay(kind) == kind # "schedule"

Kinds == {"schedule", "homework", "exams"}

\* EduVulcanCalendarEntity._build_event for the calendar of a kind.
_build_event(kind, it, tz, today) ==
    IF it.t = "dict"
    THEN IF kind = "schedule"
         THEN (IF _is_vacation_item(it) THEN _build_vacation_event(it)
               ELSE _build_lesson_event(it, tz))
         ELSE _build_generic_event(it, AllDay(kind), tz)
    ELSE IF kind = "schedule"
    THEN (IF _is_vacation_item(it) THEN _build_vacation_event(it)
          ELSE _build_lesson_event(it, tz))
    ELSE IF kind = "homework" THEN _build_homework_event(it, today)
    ELSE IF kind = "exams" THEN _build_exam_event(it, today)
    ELSE None

-----------------------------------------------------------------------------
(* Raw records: the bounded families of records the builders are run on.   *)
(* A record is a mapping or an object over the fields merged into it.      *)

\* Monday 2024-09-02, the week anchor of the lesson records.
WeekMonday == Ymd2Ord(2024, 9, 2)

Shapes == {"dict", "obj"}

Record(shape, f) == [t |-> shape, f |-> f]

SlotOk == "time_slot" :> Dict(("start" :> Str(<<"0", "8", ":", "0", "0">>)) @@ ("end" :> Str(<<"0", "8", ":", "4", "5">>)))

SlotOptions ==
    { SlotOk,
      NoFields,
      "TimeSlot" :> Obj(("start" :> Time(8 * 3600)) @@ ("end" :> Time(8 * 3600 + 45 * 60))),
      "time_slot" :> Dict("start" :> Str(<<"0", "8", ":", "0", "0">>)),
      "timeSlot" :> Dict(("Start" :> Str(<<"8", " ", "a", "m">>)) @@ ("End" :> Str(<<"0", "8", ":", "4", "5">>))),
      "time_slot" :> Dict(("start" :> Time(0)) @@ ("end" :> Str(<<"0", "0", ":", "4", "5">>))),
      "time_slot" :> Dict(("start" :> Str(<<"0", "8", ":", "4", "5">>)) @@ ("end" :> Str(<<"0", "8", ":", "0", "0">>))) }

DateOk == "date_" :> Date(WeekMonday + 1)

DateOptions ==
    { DateOk,
      NoFields,
      "date_" :> None,
      "date_" :> Str(<<"2", "0", "2", "4", "-", "0", "9", "-", "0", "4">>),
      "DateAt" :> Str(<<"2", "0", "2", "4", "-", "0", "9", "-", "0", "5", "T", "0", "0", ":", "0", "0", ":", "0", "0", "Z">>),
      "date" :> DateTimeIn(WeekMonday + 4, 10 * 3600, "naive"),
      "date_" :> Str(<<"s", "o", "o", "n">>),
      ("date_" :> None) @@ ("date" :> Date(WeekMonday + 1)),
      "date_" :> Num(20240902) }

DayOptions ==
    { NoFields,
      "weekday" :> Str(<<"3">>),
      "day_of_week" :> Str(<<" ", "4", " ">>),
      "dayOfWeek" :> Str(<<"x">>),
      "day" :> Str(<<"U00B2">>),
      "day" :> Dict(NoFields),
      "day" :> Bool(TRUE),
      ("day" :> None) @@ ("weekday" :> Num(2)) }
    \cup { "day" :> Num(d) : d \in -1..8 }

WeekOptions ==
    { NoFields,
      "week_start" :> Date(WeekMonday),
      "weekStart" :> DateTimeIn(WeekMonday, 0, "naive"),
      "week_start" :> Str(<<"2", "0", "2", "4", "-", "0", "9", "-", "0", "2">>),
      "week_start_date" :> Date(WeekMonday + 7) }

SubjectOptions ==
    { "subject" :> Dict("name" :> Str(<<"M", "a", "t", "h">>)),
      NoFields,
      "Subject" :> Obj("Name" :> Str(<<"A", "r", "t">>)) }

ChangeLower(c) == "substitution" :> Dict("change" :> Dict("type" :> c))

ChangeUpper(c) == "Substitution" :> Dict("Change" :> Dict("Type" :> c))

SubstitutionOptions ==
    { NoFields,
      "substitution" :> None,
      "substitution" :> Obj("change" :> Obj("type" :> Num(1))),
      "substitution" :> Dict("class_absence" :> Bool(TRUE)),
      "Substitution" :> Dict("classAbsence" :> Bool(FALSE)),
      "substitution" :> Dict(("subject" :> Dict("name" :> Str(<<"P", "h", "y", "s", "i", "c", "s">>)))
                             @@ ("teacher_primary" :> Dict("display_name" :> Str(<<"J", "a", "n", " ", "K", "o", "w", "a", "l", "s", "k", "i">>)))),
      ChangeLower(Dict("code" :> Num(1))) }
    \cup { ChangeLower(Num(c)) : c \in 0..4 }
    \cup { ChangeUpper(Num(c)) : c \in {0, 1, 2, 4} }

FlagOptions ==
    { NoFields,
      "cancelled" :> Bool(TRUE),
      "canceled" :> Bool(FALSE),
      "isCancelled" :> Bool(TRUE) }

StatusOptions ==
    { NoFields,
      "status" :> Str(<<"C", "A", "N", "C", "E", "L", "L", "E", "D">>),
      "status" :> Str(<<"C", "a", "n", "c", "e", "l", "l", "e", "d">>),
      "status" :> Str(<<"p", "l", "a", "n", "n", "e", "d">>),
      "status" :> Str(<<"r", "e", "p", "l", "a", "c", "e", "m", "e", "n", "t">>) }

TeacherOptions ==
    { NoFields,
      ("teacher_primary" :> Obj(("display_name" :> Str(<<"A", "n", "n", "a", " ", "N", "o", "w", "a", "k">>))
                                @@ ("name" :> Str(<<"A", "n", "n", "a">>)) @@ ("surname" :> Str(<<"N", "o", "w", "a", "k">>))))
          @@ ("room" :> Dict("code" :> Str(<<"1", "2">>))),
      ("TeacherPrimary" :> Dict(("name" :> Str(<<"A", "n", "n", "a">>)) @@ ("Surname" :> Str(<<"N", "o", "w", "a", "k">>))))
          @@ ("teacher_secondary" :> Dict("displayName" :> Str(<<"J", "a", "n", " ", "K", "o", "w", "a", "l", "s", "k", "i">>))),
      "teacher_primary" :> Str(<<"K", "o", "w", "a", "l", "s", "k", "i">>),
      "teacher_primary" :> Dict("display_name" :> Num(7)) }

\* Lesson records that vary the date signals.
DateLessons ==
    { Record(shape, d @@ day @@ w @@ SlotOk @@ ("subject" :> Dict("name" :> Str(<<"M", "a", "t", "h">>)))) :
        shape \in Shapes, d \in DateOptions, day \in DayOptions, w \in WeekOptions }

\* Lesson records that vary the cancellation signals.
StateLessons ==
    { Record(shape, DateOk @@ slot @@ sub @@ flag @@ status
                    @@ ("subject" :> Dict("name" :> Str(<<"M", "a", "t", "h">>)))) :
        shape \in Shapes, slot \in {SlotOk, NoFields}, sub \in SubstitutionOptions,
        flag \in FlagOptions, status \in StatusOptions }

\* Lesson records that vary the time slot, the subject, the teachers with
\* the room, and what the substitution supplies.
ShapeLessons ==
    { Record(shape, d @@ slot @@ subj @@ sub @@ teacher) :
        shape \in Shapes, d \in {DateOk, NoFields}, slot \in SlotOptions,
        subj \in SubjectOptions, teacher \in TeacherOptions,
        sub \in { NoFields, ChangeLower(Num(0)), ChangeUpper(Num(2)),
                  "substitution" :> Dict("subject" :> Dict("name" :> Str(<<"P", "E">>))),
                  "substitution" :> Dict("Room" :> Dict("Code" :> Str(<<"7">>))) } }

BoundOptions(key) ==
    { NoFields,
      key :> Date(Ymd2Ord(2024, 10, 14)),
      key :> Str(<<"2", "0", "2", "4", "-", "1", "0", "-", "1", "4">>),
      key :> Str(<<"2", "0", "2", "4", "-", "1", "0", "-", "1", "8">>),
      key :> DateTimeIn(Ymd2Ord(2024, 10, 16), 12 * 3600, "naive"),
      key :> Str(<<"2", "0", "2", "4", "-", "1", "0", "-", "1", "7", "T", "0", "0", ":", "0", "0", ":", "0", "0", "Z">>),
      key :> Str(<<"n", "e", "x", "t", " ", "w", "e", "e", "k">>),
      key :> Num(20241014) }

VacationRecords ==
    { Record(shape, name @@ from @@ to) :
        shape \in Shapes,
        name \in { "name" :> Str(<<"A", "u", "t", "u", "m", "n", " ", "b", "r", "e", "a", "k">>), "Name" :> Str(<<"F", "e", "r", "i", "e">>),
                   "name" :> Str(<<>>), NoFields },
        from \in BoundOptions("date_from") \cup BoundOptions("dateFrom"),
        to \in BoundOptions("date_to") \cup BoundOptions("To") }

\* Homework and exam records; as mappings they go to the generic builder.
DeadlineRecords ==
    { Record(shape, subj @@ deadline @@ d @@ content) :
        shape \in Shapes,
        subj \in { "subject" :> Obj("name" :> Str(<<"A", "r", "t">>)), NoFields },
        deadline \in { NoFields, "deadline" :> None,
                       "deadline" :> Date(Ymd2Ord(2024, 10, 11)),
                       "deadlineAt" :> DateTimeIn(Ymd2Ord(2024, 10, 12), 8 * 3600, "naive"),
                       "deadline" :> Str(<<"2", "0", "2", "4", "-", "1", "0", "-", "1", "1">>) },
        d \in { NoFields, "date_" :> Date(Ymd2Ord(2024, 10, 10)),
                "date_" :> Str(<<"2", "0", "2", "4", "-", "1", "0", "-", "1", "0">>) },
        content \in { NoFields, "content" :> Str(<<"D", "r", "a", "w", " ", "a", " ", "t", "r", "e", "e">>) } }

GenericRecords ==
    { Record("dict", title @@ start @@ end) :
        title \in { "title" :> Str(<<"P", "a", "r", "e", "n", "t", " ", "m", "e", "e", "t", "i", "n", "g">>), NoFields },
        start \in { NoFields,
                    "start" :> DateTimeIn(Ymd2Ord(2024, 11, 5), 18 * 3600, "naive"),
                    "start" :> Str(<<"2", "0", "2", "4", "-", "1", "1", "-", "0", "5", "T", "1", "8", ":", "0", "0", ":", "0", "0">>),
                    "start_date" :> Date(Ymd2Ord(2024, 11, 5)),
                    "start" :> DateTime(Ymd2Ord(2024, 11, 5), 23 * 3600 + 1800, "fixed", 3600) },
        end \in { NoFields,
                  "end" :> DateTimeIn(Ymd2Ord(2024, 11, 5), 17 * 3600, "naive"),
                  "end_date" :> Date(Ymd2Ord(2024, 11, 6)) } }

RawRecords == DateLessons \cup StateLessons \cup ShapeLessons \cup VacationRecords
              \cup DeadlineRecords \cup GenericRecords

\* date.today() when a builder runs.
Todays == {Ymd2Ord(2024, 9, 2), Ymd2Ord(2024, 10, 27)}

-----------------------------------------------------------------------------
(* The published snapshot and the calendar queries *)

\* No calendar query has been answered yet.
NoQuery == [op |-> "none"]

\* No builder has run on the raw record yet.
NotBuilt == [op |-> "none", kind |-> "none", tz |-> "UTC", today |-> 0, out |-> None]

\* A fetched record, marked with the refresh cycle that fetched it.  The mark
\* is bookkeeping of the model: no code reads it.
Fetched(c, rec) == [cycle |-> c, rec |-> rec]

FetchedAll(c, recs) == [n \in 1..Len(recs) |-> Fetched(c, recs[n])]

\* A Python list that a loop fills (or the exception that ended the loop).
List(xs) == [t |-> "list", xs |-> xs]

\* (self.coordinator.data or {}).get(key, []) or []
DataGet(d, key) == IF d.t = "dict" /\ key \in DOMAIN d.f THEN d.f[key] ELSE <<>>

\* _collect_calendar_items reading the locals of a running async_fetch_all
\* where it has fetched the collection already.
CollectWhileFetching(d, kind) ==
    (IF pc \in {"idle", "token", "account"} \/ (kind = "schedule" /\ pc = "schedule")
        \/ (kind = "homework" /\ pc \in {"schedule", "homework"})
        \/ (kind = "exams" /\ pc \in {"schedule", "homework", "exams"})
     THEN DataGet(d, kind)
     ELSE CASE kind = "schedule" -> fetched.lessons
            [] kind = "homework" -> fetched.homework
            [] OTHER -> fetched.exams)
    \o (IF kind = "schedule" THEN DataGet(d, "vacations") ELSE <<>>)

_collect_calendar_items(d, kind) ==
    DataGet(d, kind) \o (IF kind = "schedule" THEN DataGet(d, "vacations") ELSE <<>>)

\* The snapshot after a _collect_calendar_items that extends the stored
\* schedule list itself with the vacations.
CollectExtendingStored(d, kind) ==
    IF kind = "schedule" /\ d.t = "dict"
    THEN [d EXCEPT !.f["schedule"] = @ \o DataGet(d, "vacations")]
    ELSE d

\* The snapshot after _collect_calendar_items(data, kind): items is a new
\* list, list(data.get(kind, []) or []), so items.extend() changes no list of
\* the snapshot, and the builders only read the records.
StoredAfterCollect(d, kind) == d

\* _event_in_range taking the bounds of the range in.
EventInClosedRange(event, start_range, end_range, tz) ==
    /\ _normalize_event_datetime(event.start, tz) <= as_utc(end_range, tz)
    /\ _normalize_event_datetime(event.end, tz) >= as_utc(start_range, tz)

_event_in_range(event, start_range, end_range, tz) ==
    /\ _normalize_event_datetime(event.start, tz) < as_utc(end_range, tz)
    /\ _normalize_event_datetime(event.end, tz) > as_utc(start_range, tz)

\* One turn of the loop of async_get_events: the list after the event built
\* from an item has been looked at.
EventsWith(events, event, start_date, end_date, tz) ==
    IF IsRaise(event) THEN event
    ELSE IF event.t = "none" THEN events
    ELSE IF _event_in_range(event, start_date, end_date, tz)
    THEN List(Append(events.xs, event))
    ELSE events

\* The loop of async_get_events over the items that are left.
RECURSIVE EventsLoop(_, _, _, _, _, _, _)
EventsLoop(events, items, kind, tz, today, start_date, end_date) ==
    IF IsRaise(events) \/ items = <<>> THEN events
    ELSE EventsLoop(EventsWith(events, _build_event(kind, Head(items).rec, tz, today),
                               start_date, end_date, tz),
                    Tail(items), kind, tz, today, start_date, end_date)

\* EduVulcanCalendarEntity.async_get_events of the calendar of a kind.
async_get_events(d, kind, tz, today, start_date, end_date) ==
    EventsLoop(List(<<>>), _collect_calendar_items(d, kind), kind, tz, today,
               start_date, end_date)

\* One turn of the loop of the event property.
UpcomingWith(upcoming, event, now, tz) ==
    IF IsRaise(event) THEN event
    ELSE IF event.t = "none" THEN upcoming
    ELSE IF _normalize_event_datetime(event.end, tz) >= as_utc(now, tz)
    THEN List(Append(upcoming.xs, event))
    ELSE upcoming

\* The loop of the event property over the items that are left.
RECURSIVE UpcomingLoop(_, _, _, _, _, _)
UpcomingLoop(upcoming, items, kind, tz, today, now) ==
    IF IsRaise(upcoming) \/ items = <<>> THEN upcoming
    ELSE UpcomingLoop(UpcomingWith(upcoming, _build_event(kind, Head(items).rec, tz, today),
                                   now, tz),
                      Tail(items), kind, tz, today, now)

\* min keeping the last of the events of minimal key.
RECURSIVE MinByStartKeepingLast(_, _, _)
MinByStartKeepingLast(best, candidates, tz) ==
    IF candidates = <<>> THEN best
    ELSE MinByStartKeepingLast(IF _normalize_event_datetime(Head(candidates).start, tz)
                                    <= _normalize_event_datetime(best.start, tz)
                               THEN Head(candidates) ELSE best,
                               Tail(candidates), tz)

\* min(best, *candidates, key=normalized start): a later candidate replaces
\* the best one only when its key is smaller.
RECURSIVE MinByStart(_, _, _)
MinByStart(best, candidates, tz) ==
    IF candidates = <<>> THEN best
    ELSE MinByStart(IF _normalize_event_datetime(Head(candidates).start, tz)
                         < _normalize_event_datetime(best.start, tz)
                    THEN Head(candidates) ELSE best,
                    Tail(candidates), tz)

\* What the event property returns for the upcoming events it collected.
NextOf(upcoming, tz) ==
    IF IsRaise(upcoming) THEN upcoming
    ELSE IF upcoming.xs = <<>> THEN None
    ELSE MinByStart(Head(upcoming.xs), Tail(upcoming.xs), tz)

\* EduVulcanCalendarEntity.event of the calendar of a kind.
event(d, kind, tz, today, now) ==
    NextOf(UpcomingLoop(List(<<>>), _collect_calendar_items(d, kind), kind, tz, today, now), tz)

\* The refresh cycles that fetched a list of records.
CyclesOf(items) == {items[n].cycle : n \in 1..Len(items)}

\* The refresh cycle that is running, or 0.
Running == IF pc = "idle" THEN 0 ELSE cycle

\* The refresh cycles of the records a running async_fetch_all holds in its
\* locals: nothing, or the cycle that is running.
Fetching == CyclesOf(fetched.lessons \o fetched.homework \o fetched.exams)

\* A calendar entity answers async_get_events.  The entities exist once the
\* first refresh has published a snapshot.  The call has no await: it runs
\* between two steps of a refresh.
AsyncGetEvents(Zones, Days, Ranges) ==
    /\ data # None
    /\ \E kind \in Kinds, tz \in Zones, today \in Days, r \in Ranges :
         /\ query' = [op |-> "async_get_events", kind |-> kind, tz |-> tz, today |-> today,
                      start |-> r[1], end |-> r[2],
                      from |-> CyclesOf(_collect_calendar_items(data, kind)),
                      fetching |-> Fetching,
                      out |-> async_get_events(data, kind, tz, today, r[1], r[2])]
         /\ data' = StoredAfterCollect(data, kind)
    /\ UNCHANGED <<last_error, account_info, pc, fetched, cycle, outcome, item, built>>

\* A calendar entity answers the event property (the next upcoming event).
EventProperty(Zones, Days, Nows) ==
    /\ data # None
    /\ \E kind \in Kinds, tz \in Zones, today \in Days, now \in Nows :
         /\ query' = [op |-> "event", kind |-> kind, tz |-> tz, today |-> today,
                      start |-> now, end |-> now,
                      from |-> CyclesOf(_collect_calendar_items(data, kind)),
                      fetching |-> Fetching,
                      out |-> event(data, kind, tz, today, now)]
         /\ data' = StoredAfterCollect(data, kind)
    /\ UNCHANGED <<last_error, account_info, pc, fetched, cycle, outcome, item, built>>

-----------------------------------------------------------------------------
(* The refresh cycle: EduVulcanCoordinator._async_update_data awaiting        *)
(* EduVulcanApi.async_fetch_all, one step per awaited call                    *)

\* An exception with its message.
RaiseMsg(exc, msg) == [t |-> "raise", exc |-> exc, msg |-> msg]

\* str.lower() of one character, with the Polish letters of
\* _POLISH_TRANSLATION replaced.
SlugChar(c) ==
    IF \E n \in 1..Len(Upper) : Upper[n] = c
    THEN Lower[CHOOSE n \in 1..Len(Upper) : Upper[n] = c]
    ELSE CASE c \in {"U0105", "U0104"} -> "a"
           [] c \in {"U0107", "U0106"} -> "c"
           [] c \in {"U0119", "U0118"} -> "e"
           [] c \in {"U0142", "U0141"} -> "l"
           [] c \in {"U0144", "U0143"} -> "n"
           [] c \in {"U00F3", "U00D3"} -> "o"
           [] c \in {"U015B", "U015A"} -> "s"
           [] c \in {"U017C", "U017B", "U017A", "U0179"} -> "z"
           [] OTHER -> c

IsAlnum(c) == c \in Digits \/ \E n \in 1..Len(Lower) : Lower[n] = c

\* The loop of slugify_name: a run of other characters becomes one "_".
RECURSIVE SlugLoop(_, _, _)
SlugLoop(slug_chars, last_was_sep, rest) ==
    IF rest = <<>> THEN slug_chars
    ELSE IF IsAlnum(SlugChar(Head(rest)))
    THEN SlugLoop(Append(slug_chars, SlugChar(Head(rest))), FALSE, Tail(rest))
    ELSE SlugLoop(IF last_was_sep THEN slug_chars ELSE Append(slug_chars, "_"), TRUE, Tail(rest))

\* str.strip("_")
RECURSIVE StripUnderscores(_)
StripUnderscores(s) ==
    IF s = <<>> THEN s
    ELSE IF Head(s) = "_" THEN StripUnderscores(Tail(s))
    ELSE IF s[Len(s)] = "_" THEN StripUnderscores(SubSeq(s, 1, Len(s) - 1))
    ELSE s

\* slugify_name(name) of a name in ASCII and Polish letters.
slugify_name(name) == StripUnderscores(SlugLoop(<<>>, FALSE, name))

\* The premium capability string async_load_token demands.
PREMIUM_CAPS == Str(<<"[", "\"", "E", "D", "U", "V", "U", "L", "C", "A", "N", "_", "P", "R", "E", "M", "I", "U", "M", "\"", "]">>)

\* TokenData(jwt, tenant, name, uid, caps)
TokenData(jwt, tenant, name, uid, caps) ==
    [t |-> "token", jwt |-> jwt, tenant |-> tenant, name |-> name, uid |-> uid, caps |-> caps]

\* The token read from the fields of the token file.
TokenOfFields(jwt, tenant, name, uid, caps) ==
    IF ~Truthy(jwt) \/ ~Truthy(tenant)
    THEN RaiseMsg("HomeAssistantError", <<"T", "o", "k", "e", "n", " ", "f", "i", "l", "e", " ", "m", "i", "s", "s", "i", "n", "g", " ", "r", "e", "q", "u", "i", "r", "e", "d", " ", "f", "i", "e", "l", "d", "s", ".">>)
    ELSE IF ~Truthy(name) \/ ~Truthy(uid)
    THEN RaiseMsg("HomeAssistantError", <<"T", "o", "k", "e", "n", " ", "p", "a", "y", "l", "o", "a", "d", " ", "m", "i", "s", "s", "i", "n", "g", " ", "n", "a", "m", "e", " ", "o", "r", " ", "u", "i", "d", ".">>)
    ELSE IF caps # PREMIUM_CAPS
    THEN RaiseMsg("ConfigEntryAuthFailed", <<"P", "r", "e", "m", "i", "u", "m", " ", "r", "e", "q", "u", "i", "r", "e", "d">>)
    ELSE TokenData(jwt, tenant, name, uid, caps)

\* value.get(key) of what json.load returned where a mapping is expected.
JsonGet(value, key) ==
    IF value.t = "dict" THEN DictGet(value, key)
    ELSE RaiseMsg("AttributeError", <<"o", "b", "j", "e", "c", "t", " ", "h", "a", "s", " ", "n", "o", " ", "a", "t", "t", "r", "i", "b", "u", "t", "e", " ", "'", "g", "e", "t", "'">>)

\* The token read from the content of the token file and its jwt_payload.
TokenOfPayload(content, jwt_payload) ==
    IF IsRaise(JsonGet(jwt_payload, "name")) THEN JsonGet(jwt_payload, "name")
    ELSE TokenOfFields(DictGet(content, "jwt"), DictGet(content, "tenant"),
                       DictGet(jwt_payload, "name"), DictGet(jwt_payload, "uid"),
                       DictGet(jwt_payload, "caps"))

\* EduVulcanApi.async_load_token on a token file: None when the file does not
\* exist, the exception json.load raised on it, or the value json.load
\* returned.
async_load_token(file) ==
    IF file.t = "none" THEN RaiseMsg("HomeAssistantError", <<"T", "o", "k", "e", "n", " ", "f", "i", "l", "e", " ", "m", "i", "s", "s", "i", "n", "g", ".">>)
    ELSE IF IsRaise(file) THEN file
    ELSE IF file.t # "dict" THEN JsonGet(file, "jwt")
    ELSE TokenOfPayload(file, Or(DictGet(file, "jwt_payload"), Dict(NoFields)))

\* The rest_url of the credential the client was created with.
CredentialRestUrl == Str(<<"h", "t", "t", "p", "s", ":", "/", "/", "l", "e", "k", "c", "j", "a", "p", "l", "u", "s", ".", "v", "u", "l", "c", "a", "n", ".", "n", "e", "t", ".", "p", "l">>)

\* EduVulcanAccountInfo of the first account.
EduVulcanAccountInfo(account) ==
    [t |-> "account", pupil_id |-> account.pupil.id,
     pupil_name |-> Str(PyStr(account.pupil.first_name) \o <<" ">> \o PyStr(account.pupil.surname)),
     unit_name |-> account.unit.name, unit_short |-> account.unit.short,
     rest_url |-> Or(account.unit.rest_url, CredentialRestUrl)]

\* EduVulcanApi.async_get_account_info on what the remote source answered: the
\* list of accounts, or the exception of a failed request.
\* async_get_account_info going on without an account when none is returned.
AccountInfoOrNothing(accounts) ==
    IF IsRaise(accounts) THEN accounts
    ELSE IF accounts.xs = <<>> THEN None
    ELSE EduVulcanAccountInfo(accounts.xs[1])

async_get_account_info(accounts) ==
    IF IsRaise(accounts) THEN accounts
    ELSE IF accounts.xs = <<>>
    THEN RaiseMsg("HomeAssistantError", <<"N", "o", " ", "a", "c", "c", "o", "u", "n", "t", "s", " ", "r", "e", "t", "u", "r", "n", "e", "d", " ", "b", "y", " ", "I", "r", "i", "s", " ", "A", "P", "I", ".">>)
    ELSE EduVulcanAccountInfo(accounts.xs[1])

\* The locals of a running async_fetch_all.
NoFetch == [token |-> None, account |-> None, lessons |-> <<>>, homework |-> <<>>,
            exams |-> <<>>]

\* _async_update_data swallowing the error: it returns nothing.
ReturnsNothing(err) == None

\* UpdateFailed(str(err))
UpdateFailed(err) == RaiseMsg("UpdateFailed", err.msg)

\* The snapshot _async_update_data returns: {**data, name, slug, uid}.
Snapshot(lessons, homework, exams, vacations, token) ==
    Dict([schedule |-> lessons, homework |-> homework, exams |-> exams,
          vacations |-> vacations, name |-> token.name,
          slug |-> Str(slugify_name(token.name.s)), uid |-> token.uid])

\* DataUpdateCoordinator, the base class: a refresh stores what
\* _async_update_data returned and keeps the data it has when that raised.
StoreResult(old, result) == IF IsRaise(result) THEN old ELSE result

\* No refresh has ended yet.
NoOutcome == [t |-> "none"]

\* _async_update_data returned a snapshot.
Updated == [t |-> "updated"]

\* The except branch of _async_update_data dropping the account info too.
UpdateFailsForgettingAccount(err) ==
    /\ last_error' = Str(err.msg)
    /\ outcome' = UpdateFailed(err)
    /\ data' = StoreResult(data, UpdateFailed(err))
    /\ pc' = "idle"
    /\ fetched' = NoFetch
    /\ account_info' = None
    /\ UNCHANGED cycle

\* The except branch of _async_update_data: the error is recorded and raised
\* as UpdateFailed; the refresh ends there.
UpdateFails(err) ==
    /\ last_error' = Str(err.msg)
    /\ outcome' = UpdateFailed(err)
    /\ data' = StoreResult(data, UpdateFailed(err))
    /\ pc' = "idle"
    /\ fetched' = NoFetch
    /\ UNCHANGED <<account_info, cycle>>

\* What the remote source may answer to a request: a list, or the exception
\* of a failed request.
NetworkError == RaiseMsg("ClientError", <<"C", "a", "n", "n", "o", "t", " ", "c", "o", "n", "n", "e", "c", "t", " ", "t", "o", " ", "h", "o", "s", "t">>)

\* The token files the integration may find.
GoodTokenFile ==
    Dict(("jwt" :> Str(<<"e", "y", "J">>)) @@ ("tenant" :> Str(<<"p", "o", "w", "i", "a", "t">>))
         @@ ("jwt_payload" :> Dict(("name" :> Str(<<"J", "a", "n", " ", "U017B", "a", "k", "-", "N", "o", "w", "a", "k">>)) @@ ("uid" :> Str(<<"u", "-", "1">>))
                                   @@ ("caps" :> PREMIUM_CAPS))))

TokenFiles ==
    { GoodTokenFile,
      None,
      Dict("jwt" :> Str(<<"e", "y", "J">>)),
      Dict(("jwt" :> Str(<<"e", "y", "J">>)) @@ ("tenant" :> Str(<<"p", "o", "w", "i", "a", "t">>))
           @@ ("jwt_payload" :> Dict("name" :> Str(<<"J", "a", "n">>)))),
      Dict(("jwt" :> Str(<<"e", "y", "J">>)) @@ ("tenant" :> Str(<<"p", "o", "w", "i", "a", "t">>))
           @@ ("jwt_payload" :> Dict(("name" :> Str(<<"J", "a", "n">>)) @@ ("uid" :> Str(<<"u", "-", "1">>))
                                     @@ ("caps" :> Str(<<"[", "]">>))))) }

Account(first_name, rest_url) ==
    [pupil |-> [id |-> Num(7), first_name |-> Str(first_name), surname |-> Str(<<"K", "o", "w", "a", "l", "s", "k", "i">>)],
     unit |-> [name |-> Str(<<"S", "z", "k", "o", "U0142", "a", " ", "P", "o", "d", "s", "t", "a", "w", "o", "w", "a", " ", "n", "r", " ", "1">>), short |-> Str(<<"S", "P", "1">>),
               rest_url |-> rest_url]]

AccountReplies ==
    { List(<<Account(<<"J", "a", "n">>, Str(<<"h", "t", "t", "p", "s", ":", "/", "/", "a", "p", "i", ".", "e", "x", "a", "m", "p", "l", "e", "/", "s", "p", "1">>))>>),
      List(<<Account(<<"E", "w", "a">>, None), Account(<<"J", "a", "n">>, None)>>),
      List(<<>>),
      NetworkError }

\* A lesson record with a date and a time slot.
Lesson(subject, day, start, end) ==
    Dict(("subject" :> Dict("name" :> Str(subject))) @@ ("date_" :> Date(day))
         @@ ("time_slot" :> Dict(("start" :> Str(start)) @@ ("end" :> Str(end)))))

MathLesson == Lesson(<<"M", "a", "t", "h">>, WeekMonday, <<"0", "8", ":", "0", "0">>, <<"0", "8", ":", "4", "5">>)

\* A lesson at the same time as MathLesson.
ArtLesson == Lesson(<<"A", "r", "t">>, WeekMonday, <<"0", "8", ":", "0", "0">>, <<"0", "8", ":", "4", "5">>)

LateLesson == Lesson(<<"P", "E">>, WeekMonday, <<"0", "8", ":", "4", "5">>, <<"0", "9", ":", "3", "0">>)

CancelledLesson ==
    Dict(MathLesson.f @@ ("substitution" :> Dict("class_absence" :> Bool(TRUE))))

\* A lesson whose teacher is plain text: _teacher_name raises on it.
BrokenLesson == Dict(MathLesson.f @@ ("teacher_primary" :> Str(<<"K", "o", "w", "a", "l", "s", "k", "i">>)))

\* A vacation over the end of summer time (Sunday 2024-10-27).
AutumnBreak ==
    Obj(("name" :> Str(<<"A", "u", "t", "u", "m", "n", " ", "b", "r", "e", "a", "k">>)) @@ ("date_from" :> Date(Ymd2Ord(2024, 10, 25)))
        @@ ("date_to" :> Str(<<"2", "0", "2", "4", "-", "1", "0", "-", "2", "7">>)))

HomeworkItem ==
    Obj(("subject" :> Obj("name" :> Str(<<"A", "r", "t">>))) @@ ("deadline" :> Date(Ymd2Ord(2024, 10, 11)))
        @@ ("content" :> Str(<<"D", "r", "a", "w", " ", "a", " ", "t", "r", "e", "e">>)))

ExamItem ==
    Obj(("subject" :> Obj("name" :> Str(<<"M", "a", "t", "h">>)))
        @@ ("deadline" :> DateTimeIn(Ymd2Ord(2024, 10, 12), 8 * 3600, "naive")))

ScheduleReplies ==
    { List(<<MathLesson>>), List(<<ArtLesson, CancelledLesson>>), NetworkError }

HomeworkReplies == { List(<<HomeworkItem>>), NetworkError }

ExamReplies == { List(<<ExamItem>>), NetworkError }

VacationReplies == { List(<<AutumnBreak>>), NetworkError }

\* How many refresh cycles a behaviour of the model starts.
MaxCycles == 2

\* The coordinator starts a refresh: _async_update_data runs to its first await.
StartRefresh ==
    /\ pc = "idle"
    /\ cycle < MaxCycles
    /\ pc' = "token"
    /\ cycle' = cycle + 1
    /\ fetched' = NoFetch
    /\ UNCHANGED <<data, last_error, account_info, outcome, query, item, built>>

\* token = await self.async_load_token()
LoadToken ==
    /\ pc = "token"
    /\ \E file \in TokenFiles :
         IF IsRaise(async_load_token(file)) THEN UpdateFails(async_load_token(file))
         ELSE /\ pc' = "account"
              /\ fetched' = [fetched EXCEPT !.token = async_load_token(file)]
              /\ UNCHANGED <<data, last_error, account_info, cycle, outcome>>
    /\ UNCHANGED <<query, item, built>>

\* async_get_account_info once get_accounts has answered.
AccountsReturned(accounts) ==
    /\ pc \in {"account", "vac_account"}
    /\ IF IsRaise(async_get_account_info(accounts))
       THEN UpdateFails(async_get_account_info(accounts))
       ELSE /\ pc' = IF pc = "account" THEN "schedule" ELSE "vacations"
            /\ fetched' = IF pc = "account"
                          THEN [fetched EXCEPT !.account = async_get_account_info(accounts)]
                          ELSE fetched
            /\ UNCHANGED <<data, last_error, account_info, cycle, outcome>>
    /\ UNCHANGED <<query, item, built>>

\* account = await self.async_get_account_info(token), in async_fetch_all and
\* again in async_get_vacations (which uses it for its request only).
GetAccountInfo == \E accounts \in AccountReplies : AccountsReturned(accounts)

\* lessons = await self._api.get_schedule(...)
GetSchedule ==
    /\ pc = "schedule"
    /\ \E reply \in ScheduleReplies :
         IF IsRaise(reply) THEN UpdateFails(reply)
         ELSE /\ pc' = "homework"
              /\ fetched' = [fetched EXCEPT !.lessons = FetchedAll(cycle, reply.xs)]
              /\ UNCHANGED <<data, last_error, account_info, cycle, outcome>>
    /\ UNCHANGED <<query, item, built>>

\* homework = await self._api.get_homework(...)
GetHomework ==
    /\ pc = "homework"
    /\ \E reply \in HomeworkReplies :
         IF IsRaise(reply) THEN UpdateFails(reply)
         ELSE /\ pc' = "exams"
              /\ fetched' = [fetched EXCEPT !.homework = FetchedAll(cycle, reply.xs)]
              /\ UNCHANGED <<data, last_error, account_info, cycle, outcome>>
    /\ UNCHANGED <<query, item, built>>

\* exams = await self._api.get_exams(...)
GetExams ==
    /\ pc = "exams"
    /\ \E reply \in ExamReplies :
         IF IsRaise(reply) THEN UpdateFails(reply)
         ELSE /\ pc' = "vac_account"
              /\ fetched' = [fetched EXCEPT !.exams = FetchedAll(cycle, reply.xs)]
              /\ UNCHANGED <<data, last_error, account_info, cycle, outcome>>
    /\ UNCHANGED <<query, item, built>>

\* vacations = await self.async_get_vacations(...); async_fetch_all returns,
\* _async_update_data records the success and returns the snapshot, and the
\* coordinator stores it: no await separates these.
GetVacations ==
    /\ pc = "vacations"
    /\ \E reply \in VacationReplies :
         IF IsRaise(reply) THEN UpdateFails(reply)
         ELSE /\ last_error' = None
              /\ account_info' = fetched.account
              /\ data' = StoreResult(data, Snapshot(fetched.lessons, fetched.homework,
                                                    fetched.exams, FetchedAll(cycle, reply.xs),
                                                    fetched.token))
              /\ outcome' = Updated
              /\ pc' = "idle"
              /\ fetched' = NoFetch
              /\ UNCHANGED cycle
    /\ UNCHANGED <<query, item, built>>

\* The time zone, the dates and the times of the queries in Spec.
ConfiguredZones == {"Europe/Warsaw"}

Utc(y, m, d, sec) == DateTime(Ymd2Ord(y, m, d), sec, "UTC", 0)

SomeDays == {Ymd2Ord(2024, 10, 27)}

SomeRanges == { <<Utc(2024, 9, 1, 0), Utc(2024, 11, 1, 0)>> }

SomeNows == { Utc(2024, 9, 2, 6 * 3600 + 45 * 60) }

Init ==
    /\ data = None
    /\ last_error = None
    /\ account_info = None
    /\ pc = "idle"
    /\ fetched = NoFetch
    /\ cycle = 0
    /\ outcome = NoOutcome
    /\ query = NoQuery
    /\ item = None
    /\ built = NotBuilt

Next ==
    \/ StartRefresh
    \/ LoadToken
    \/ GetAccountInfo
    \/ GetSchedule
    \/ GetHomework
    \/ GetExams
    \/ GetVacations
    \/ AsyncGetEvents(ConfiguredZones, SomeDays, SomeRanges)
    \/ EventProperty(ConfiguredZones, SomeDays, SomeNows)

Spec == Init /\ [][Next]_vars

-----------------------------------------------------------------------------
(* Properties of the refresh cycle, checked under Spec *)

\* A step that ends a running refresh with an error text recorded: the fetch
\* raised.
RefreshFailed == pc # "idle" /\ pc' = "idle" /\ last_error' # None

\* C3: when a refresh cycle fails, the published snapshot stays exactly as it
\* was and the failure leaves _async_update_data as UpdateFailed; the
\* coordinator does not try again within the cycle: the failed refresh holds
\* nothing more, the cycle count is the same, and no step of a refresh awaits
\* the call it has awaited already.
C3_FailedRefreshKeepsSnapshot ==
    [][/\ RefreshFailed =>
             /\ data' = data
             /\ outcome'.t = "raise" /\ outcome'.exc = "UpdateFailed"
             /\ last_error' = Str(outcome'.msg)
             /\ fetched' = NoFetch
             /\ cycle' = cycle
       /\ (pc # "idle" /\ pc' = pc) =>
             UNCHANGED <<data, last_error, account_info, fetched, cycle, outcome>>]_vars

\* The second refresh failed and the snapshot of the first is still published.
C3_SnapshotSurvivedFailure ==
    /\ pc = "idle"
    /\ cycle = 2
    /\ outcome.t = "raise"
    /\ data # None
    /\ CyclesOf(DataGet(data, "schedule")) = {1}

\* The refresh cycles that fetched the four collections of a snapshot.
SnapshotCycles(d) ==
    UNION {CyclesOf(DataGet(d, key)) : key \in {"schedule", "homework", "exams", "vacations"}}

\* C4: a query that runs between the steps of a refresh reads schedule,
\* homework, exams and vacations of one completed refresh cycle: the records
\* it collected, and the four collections of the snapshot that is published,
\* were all fetched by the same cycle, and not by the cycle that is running
\* (none is a record the running fetch held when the query ran).
C4_QueriesSeeOneCompletedCycle ==
    /\ query.op # "none" =>
         /\ Cardinality(query.from) <= 1
         /\ query.from \cap query.fetching = {}
    /\ data # None =>
         /\ Cardinality(SnapshotCycles(data)) = 1
         /\ Running \notin SnapshotCycles(data)

\* A query answered while the second refresh held records it had fetched
\* read the records of the first cycle.
C4_QueryDuringRefresh ==
    /\ query.op # "none"
    /\ query.fetching = {2}
    /\ query.from = {1}

\* The failure of a refresh that found no account.
NoAccountsFailure == UpdateFailed(RaiseMsg("HomeAssistantError", <<"N", "o", " ", "a", "c", "c", "o", "u", "n", "t", "s", " ", "r", "e", "t", "u", "r", "n", "e", "d", " ", "b", "y", " ", "I", "r", "i", "s", " ", "A", "P", "I", ".">>))

\* The running fetch has made none of its schedule, homework and exam requests.
NothingRequested == fetched.lessons = <<>> /\ fetched.homework = <<>> /\ fetched.exams = <<>>

\* C16 as stated: when no account is returned the refresh fails before any
\* schedule, homework, exam or vacation request is made, the snapshot stays
\* and the failure is reported.
C16_FailsBeforeAnyRequest ==
    [][AccountsReturned(List(<<>>)) =>
          /\ NothingRequested
          /\ data' = data
          /\ outcome' = NoAccountsFailure]_vars

\* C16: when no account is returned the refresh fails at that lookup: nothing
\* is published, the snapshot stays as it was, the failure is reported as
\* UpdateFailed and the fetch makes no further request.  At the first lookup
\* no schedule, homework, exam or vacation request has been made; at the
\* lookup async_get_vacations repeats, only the vacation request has not.
C16_NoAccountsFailsRefresh ==
    [][AccountsReturned(List(<<>>)) =>
          /\ pc = "account" => NothingRequested
          /\ data' = data
          /\ outcome' = NoAccountsFailure
          /\ last_error' = Str(NoAccountsFailure.msg)
          /\ pc' = "idle"
          /\ fetched' = NoFetch]_vars

\* The second refresh found no account and the snapshot of the first is
\* still published.
C16_NoAccountsSnapshotKept ==
    /\ outcome = NoAccountsFailure
    /\ pc = "idle"
    /\ cycle = 2
    /\ data # None
    /\ CyclesOf(DataGet(data, "schedule")) = {1}

\* A step of a calendar query: no step of a refresh, each of which moves the
\* refresh on.
QueryAnswered == pc' = pc

CycleEnds == pc # "idle" /\ pc' = "idle"

\* Between refresh cycles: last_error is None exactly when the last cycle
\* succeeded and the text of its failure otherwise, and there is an account
\* info exactly when some cycle has succeeded.
ErrorTellsLastCycle ==
    (pc = "idle" /\ cycle > 0) =>
        /\ last_error = None <=> outcome = Updated
        /\ outcome # Updated => (outcome.t = "raise" /\ last_error = Str(outcome.msg))
        /\ account_info = None <=> data = None

-----------------------------------------------------------------------------
(* The calendar queries run on one published snapshot *)

\* The longest schedule list of the snapshots.
MaxItems == 2

\* The lists of at most n members of S.
ListsUpTo(S, n) == UNION {[1..k -> S] : k \in 0..n}

QueryLessons == {MathLesson, ArtLesson, LateLesson, CancelledLesson, BrokenLesson}

QueryToken == async_load_token(GoodTokenFile)

QuerySnapshots ==
    { Snapshot(FetchedAll(1, lessons), FetchedAll(1, <<HomeworkItem>>),
               FetchedAll(1, <<ExamItem>>), FetchedAll(1, vacations), QueryToken) :
        lessons \in ListsUpTo(QueryLessons, MaxItems), vacations \in {<<AutumnBreak>>} }

\* The times the queries ask about: where the events of the snapshots start
\* and end in Europe/Warsaw and in UTC.
QueryPoints ==
    { DateTime(Ymd2Ord(2024, 9, 2), 8 * 3600, "fixed", 7200),
      Utc(2024, 9, 2, 6 * 3600 + 45 * 60),
      Utc(2024, 9, 2, 8 * 3600),
      Utc(2024, 9, 2, 8 * 3600 + 45 * 60),
      Utc(2024, 10, 24, 22 * 3600),
      Utc(2024, 10, 25, 0),
      Utc(2024, 10, 27, 23 * 3600),
      Utc(2024, 10, 28, 0) }

QueryRanges == { <<a, b>> \in QueryPoints \X QueryPoints : as_utc(a, "UTC") < as_utc(b, "UTC") }

InitQuery ==
    /\ data \in QuerySnapshots
    /\ last_error = None
    /\ account_info = None
    /\ pc = "idle"
    /\ fetched = NoFetch
    /\ cycle = 1
    /\ outcome = Updated
    /\ query = NoQuery
    /\ item = None
    /\ built = NotBuilt

NextQuery ==
    \/ query = NoQuery /\ AsyncGetEvents(TimeZones, SomeDays, QueryRanges)
    \/ query = NoQuery /\ EventProperty(TimeZones, SomeDays, QueryPoints)

SpecQuery == InitQuery /\ [][NextQuery]_vars

-----------------------------------------------------------------------------
(* Properties of the calendar queries, checked under SpecQuery *)

\* The event built from the n-th record the query of a kind collects.
BuiltAt(n) ==
    _build_event(query.kind, _collect_calendar_items(data, query.kind)[n].rec,
                 query.tz, query.today)

\* The records a query collects, by position.
Positions == 1..Len(_collect_calendar_items(data, query.kind))

\* The normalized start and end of an event: all-day dates at the local start
\* of day, as UTC instants.
StartOf(e) == _normalize_event_datetime(e.start, query.tz)

EndOf(e) == _normalize_event_datetime(e.end, query.tz)

\* The positions of the records whose event overlaps the range of the query.
InRange ==
    { n \in Positions :
        /\ BuiltAt(n).t = "event"
        /\ StartOf(BuiltAt(n)) < as_utc(query.end, query.tz)
        /\ EndOf(BuiltAt(n)) > as_utc(query.start, query.tz) }

\* The members of a list.
Members(xs) == {xs[n] : n \in 1..Len(xs)}

\* The records of a list in the opposite order.
Reversed(xs) == [n \in 1..Len(xs) |-> xs[Len(xs) + 1 - n]]

Qualifying ==
    { n \in Positions :
        BuiltAt(n).t = "event" /\ EndOf(BuiltAt(n)) >= as_utc(query.start, query.tz) }

C14_NoEventTwice ==
    (query.op = "async_get_events" /\ ~IsRaise(query.out)) =>
        \A i, j \in 1..Len(query.out.xs) : i < j => query.out.xs[i] # query.out.xs[j]

\* C15: the list async_get_events returns is in start order: an event earlier
\* in the list starts no later than an event after it, for every order of the
\* records in the snapshot.
C15_EventsInStartOrder ==
    (query.op = "async_get_events" /\ ~IsRaise(query.out)) =>
        \A i, j \in 1..Len(query.out.xs) :
            i < j => StartOf(query.out.xs[i]) <= StartOf(query.out.xs[j])

-----------------------------------------------------------------------------
(* The builders run on one raw record *)

\* EduVulcanCalendarEntity._build_event(item, tz) of the calendar of a kind.
BuildEvent ==
    /\ built = NotBuilt
    /\ \E kind \in Kinds, tz \in TimeZones, today \in Todays :
         built' = [op |-> "_build_event", kind |-> kind, tz |-> tz, today |-> today,
                   out |-> _build_event(kind, item, tz, today)]
    /\ UNCHANGED <<data, last_error, account_info, pc, fetched, cycle, outcome, query, item>>

\* _build_lesson_event(item, tz)
BuildLessonEvent ==
    /\ built = NotBuilt
    /\ \E tz \in TimeZones :
         built' = [op |-> "_build_lesson_event", kind |-> "schedule", tz |-> tz, today |-> 0,
                   out |-> _build_lesson_event(item, tz)]
    /\ UNCHANGED <<data, last_error, account_info, pc, fetched, cycle, outcome, query, item>>

\* _resolve_lesson_date(item)
ResolveLessonDate ==
    /\ built = NotBuilt
    /\ built' = [op |-> "_resolve_lesson_date", kind |-> "schedule", tz |-> "UTC", today |-> 0,
                 out |-> _resolve_lesson_date(item)]
    /\ UNCHANGED <<data, last_error, account_info, pc, fetched, cycle, outcome, query, item>>

\* _build_generic_event(item, all_day, tz) on a mapping.
BuildGenericEvent ==
    /\ built = NotBuilt
    /\ item.t = "dict"
    /\ \E all_day \in BOOLEAN, tz \in TimeZones :
         built' = [op |-> "_build_generic_event", kind |-> IF all_day THEN "all_day" ELSE "timed",
                   tz |-> tz, today |-> 0,
                   out |-> _build_generic_event(item, all_day, tz)]
    /\ UNCHANGED <<data, last_error, account_info, pc, fetched, cycle, outcome, query, item>>

\* _normalize_weekday_value(weekday_value) on the weekday field of the record.
NormalizeWeekdayValue ==
    /\ built = NotBuilt
    /\ built' = [op |-> "_normalize_weekday_value", kind |-> "schedule", tz |-> "UTC", today |-> 0,
                 out |-> _normalize_weekday_value(
                             _get_value(item, <<"day", "weekday", "day_of_week", "dayOfWeek">>))]
    /\ UNCHANGED <<data, last_error, account_info, pc, fetched, cycle, outcome, query, item>>

InitBuild ==
    /\ item \in RawRecords
    /\ built = NotBuilt
    /\ data = None
    /\ last_error = None
    /\ account_info = None
    /\ pc = "idle"
    /\ fetched = NoFetch
    /\ cycle = 0
    /\ outcome = NoOutcome
    /\ query = NoQuery

NextBuild ==
    \/ BuildEvent
    \/ BuildLessonEvent
    \/ ResolveLessonDate
    \/ BuildGenericEvent
    \/ NormalizeWeekdayValue

SpecBuild == InitBuild /\ [][NextBuild]_vars

-----------------------------------------------------------------------------
(* Properties of the builders, checked under SpecBuild *)

\* The cancellation signals of a lesson record: a substitution change type of
\* 0, 1 or 4 under either key casing, a class-absence flag that is true, a
\* cancelled flag that is true, or the status CANCELLED in any letter case.
CancelSignalActive(it) ==
    LET substitution == _get_value(it, <<"substitution", "Substitution">>)
        lower == _get_nested_value(substitution, <<"change", "type">>)
        upper == _get_nested_value(substitution, <<"Change", "Type">>)
        absence == _get_value(substitution, <<"class_absence", "classAbsence", "ClassAbsence">>)
        flag == _get_value(it, <<"cancelled", "canceled", "is_cancelled", "is_canceled",
                                 "isCancelled", "isCanceled">>)
        status == _get_value(it, <<"status">>)
    IN  \/ lower.t = "int" /\ lower.i \in {0, 1, 4}
        \/ upper.t = "int" /\ upper.i \in {0, 1, 4}
        \/ absence = Bool(TRUE)
        \/ flag = Bool(TRUE)
        \/ status.t = "str" /\ StrUpper(status.s) = <<"C", "A", "N", "C", "E", "L", "L", "E", "D">>

\* C1: a lesson record with any cancellation signal active gives no event from
\* _build_lesson_event, whatever its other fields are.
C1_CancelledLessonGivesNoEvent ==
    (built.op = "_build_lesson_event" /\ CancelSignalActive(item)) => built.out.t # "event"

\* C2: no builder raises: for a record of any shape, the builder of each
\* calendar kind returns an event or returns no event.
C2_BuildersNeverRaise ==
    built.op \in {"_build_event", "_build_lesson_event"} => built.out.t \in {"event", "none"}

\* The explicit date of a lesson record: its date field as a date, the date of
\* a datetime, or the date its text writes; None when it carries none.
ExplicitDate(it) ==
    LET v == _get_value(it, <<"date_", "date", "dateAt", "DateAt">>)
    IN  CASE v.t = "date" -> v
          [] v.t = "datetime" -> Date(v.ord)
          [] v.t = "str" -> _coerce_date_value(v.s)
          [] OTHER -> None

\* The week-anchor date of a lesson record, or None.
WeekAnchor(it) ==
    LET w == _get_value(it, <<"week_start", "weekStart", "week_start_date", "weekStartDate">>)
    IN  IF w.t \in {"date", "datetime"} THEN Date(w.ord) ELSE None

\* The ISO weekday (1..7) a lesson record carries as a number or as decimal
\* text, or 0 when it carries none.
WeekdaySignal(it) ==
    LET v == _get_value(it, <<"day", "weekday", "day_of_week", "dayOfWeek">>)
    IN  CASE v.t = "int" /\ v.i \in 1..7 -> v.i
          [] /\ v.t = "str"
             /\ StrStrip(v.s) # <<>>
             /\ AllDigits(StrStrip(v.s))
             /\ DigitsVal(StrStrip(v.s)) \in 1..7 -> DigitsVal(StrStrip(v.s))
          [] OTHER -> 0

\* The lesson record has no explicit date field (or a null one), a week anchor
\* and an ISO weekday.
AnchoredLesson(it) ==
    /\ _get_value(it, <<"date_", "date", "dateAt", "DateAt">>).t = "none"
    /\ WeekAnchor(it).t = "date"
    /\ WeekdaySignal(it) \in 1..7

\* C7: for a lesson record without an explicit date that carries a week anchor
\* W and an ISO weekday d in 1..7, _resolve_lesson_date returns W + (d - 1)
\* days, so that Monday (d = 1) gives W itself.
C7_WeekAnchorPlusWeekday ==
    (built.op = "_resolve_lesson_date" /\ AnchoredLesson(item))
        => built.out = Date(WeekAnchor(item).ord + (WeekdaySignal(item) - 1))

\* A Monday lesson without an explicit date resolved to its week anchor.
C7_MondayIsAnchor ==
    /\ built.op = "_resolve_lesson_date"
    /\ AnchoredLesson(item)
    /\ WeekdaySignal(item) = 1
    /\ built.out = Date(WeekMonday)

\* The lesson record has an explicit date whose ISO weekday differs from the
\* weekday signal it carries.
DisagreeingLesson(it) ==
    /\ ExplicitDate(it).t = "date"
    /\ WeekdaySignal(it) \in 1..7
    /\ WeekdaySignal(it) # IsoWeekday(ExplicitDate(it).ord)

SlotTime(it, keys) ==
    _coerce_time_value(_get_value(_get_value(it, <<"time_slot", "timeSlot", "TimeSlot">>), keys))

\* The conditions under which a lesson record is to give an event: it is not
\* cancelled, its time slot yields a start and an end time, and its date
\* resolves.
LessonBuildable(it) ==
    /\ ~CancelSignalActive(it)
    /\ SlotTime(it, <<"start", "Start">>).t = "time"
    /\ SlotTime(it, <<"end", "End">>).t = "time"
    /\ _resolve_lesson_date(it).t = "date"

\* C9: _build_lesson_event produces an event if and only if the record is not
\* cancelled, its time slot yields a start and an end time and a lesson date
\* resolves; the event starts and ends on that date at those times in the
\* configured time zone.
C9_LessonEventIffBuildable ==
    built.op = "_build_lesson_event" =>
        /\ built.out.t = "event" <=> LessonBuildable(item)
        /\ built.out.t = "event" =>
             /\ built.out.start = DateTimeIn(_resolve_lesson_date(item).ord,
                                             SlotTime(item, <<"start", "Start">>).sec, built.tz)
             /\ built.out.end = DateTimeIn(_resolve_lesson_date(item).ord,
                                           SlotTime(item, <<"end", "End">>).sec, built.tz)

\* C10: a vacation record (one with a name, a from-date and a to-date) among
\* the schedule items gives one all-day event from date_from to the day after
\* date_to, also when the bounds are ISO date text; it gives no event only
\* when a bound does not coerce to a date.
C10_VacationAllDayEvent ==
    (built.op = "_build_event" /\ built.kind = "schedule" /\ _is_vacation_item(item)) =>
        LET from == VacationBound(_get_value(item, <<"date_from", "dateFrom", "From">>))
            to == VacationBound(_get_value(item, <<"date_to", "dateTo", "To">>))
        IN  IF from.t = "date" /\ to.t = "date"
            THEN /\ built.out.t = "event"
                 /\ built.out.start = from
                 /\ built.out.end = Date(to.ord + 1)
            ELSE built.out = None

\* The vacation written 2024-10-14..2024-10-18 as ISO text built into the
\* all-day event [2024-10-14, 2024-10-19).
C10_AutumnBreakFromText ==
    /\ built.op = "_build_event"
    /\ built.kind = "schedule"
    /\ _get_value(item, <<"date_from", "dateFrom", "From">>) = Str(<<"2", "0", "2", "4", "-", "1", "0", "-", "1", "4">>)
    /\ _get_value(item, <<"date_to", "dateTo", "To">>) = Str(<<"2", "0", "2", "4", "-", "1", "0", "-", "1", "8">>)
    /\ built.out.t = "event"
    /\ built.out.start = Date(Ymd2Ord(2024, 10, 14))
    /\ built.out.end = Date(Ymd2Ord(2024, 10, 19))


\* C11: every event a builder produces ends after it starts: an all-day event
\* ends at least one day after its start date, a timed event ends at or after
\* its start instant, whatever the record was.
C11_EventEndsAfterStart ==
    (built.op = "_build_event" /\ built.out.t = "event") =>
        IF built.out.start.t = "date"
        THEN built.out.end.t = "date" /\ built.out.end.ord > built.out.start.ord
        ELSE /\ built.out.end.t = "datetime"
             /\ as_utc(built.out.end, built.tz) >= as_utc(built.out.start, built.tz)


\* The civil date a date, a datetime or ISO text stands for.
CivilDateOf(v) ==
    CASE v.t = "date" -> v
      [] v.t = "datetime" -> Date(v.ord)
      [] v.t = "str" -> _coerce_date_value(v.s)
      [] OTHER -> None

\* The start date of a homework record: its deadline if it has one, else its
\* lesson date, else the current date.
HomeworkStart(it, today) ==
    IF Truthy(_get_value(it, <<"deadline", "deadlineAt">>))
    THEN CivilDateOf(_get_value(it, <<"deadline", "deadlineAt">>))
    ELSE IF Truthy(_get_value(it, <<"date_", "date", "dateAt">>))
    THEN CivilDateOf(_get_value(it, <<"date_", "date", "dateAt">>))
    ELSE Date(today)

\* The summary of a homework record.
HomeworkSummary(it) ==
    IF Truthy(_get_nested_value(it, <<"subject", "name">>))
    THEN Str(_get_nested_value(it, <<"subject", "name">>).s \o <<" ", "U2013", " ", "Z", "a", "d", "a", "n", "i", "e">>)
    ELSE Str(<<"Z", "a", "d", "a", "n", "i", "e">>)

\* C12: a homework record, mapping or object, gives an all-day event of one
\* day that starts on the deadline date if there is one, else on the lesson
\* date, else today, with summary "{subject} – Zadanie" (or "Zadanie") and the
\* content as description.
C12_HomeworkEvent ==
    (built.op = "_build_event" /\ built.kind = "homework" /\ item \in DeadlineRecords) =>
        /\ built.out.t = "event"
        /\ built.out.start = HomeworkStart(item, built.today)
        /\ built.out.end = Date(built.out.start.ord + 1)
        /\ built.out.summary = HomeworkSummary(item)
        /\ built.out.description = _get_value(item, <<"content", "description">>)


\* The start and the end a generic mapping gives.
GenericStart(it) ==
    _get_value(it, <<"start", "start_date", "start_datetime", "date", "date_", "dateAt">>)

GenericEnd(it) == _get_value(it, <<"end", "end_date", "end_datetime">>)

\* The scenario of the specification: a parent meeting at 18:00, no end given.
ParentMeeting ==
    Dict(("title" :> Str(<<"P", "a", "r", "e", "n", "t", " ", "m", "e", "e", "t", "i", "n", "g">>)) @@ ("start" :> Str(<<"2", "0", "2", "4", "-", "1", "1", "-", "0", "5", "T", "1", "8", ":", "0", "0", ":", "0", "0">>)))

\* C13: the generic builder gives an event exactly when the start of the
\* mapping resolves to a date or a time (a date, a datetime or ISO text); with
\* no end given the event ends one day after its start on an all-day calendar
\* and one hour after it on a timed one, so that the parent meeting of
\* 2024-11-05T18:00:00 ends at 19:00:00.
C13_GenericEventDefaultEnd ==
    built.op = "_build_generic_event" =>
        /\ built.out.t = "event" <=> CivilDateOf(GenericStart(item)).t = "date"
        /\ (built.out.t = "event" /\ GenericEnd(item) = None) =>
              IF built.kind = "all_day"
              THEN built.out.end = Date(built.out.start.ord + 1)
              ELSE built.out.end = DateTimePlus(built.out.start, 3600)
        /\ (item = ParentMeeting /\ built.kind = "timed") =>
              /\ built.out.t = "event"
              /\ built.out.end = DateTimeIn(Ymd2Ord(2024, 11, 5), 19 * 3600, built.tz)

\* The substitution sub-record of a lesson record.
SubstitutionOf(it) == _get_value(it, <<"substitution", "Substitution">>)

\* The first of the values that is set.
RECURSIVE FirstSet(_)
FirstSet(values) ==
    IF values = <<>> THEN None
    ELSE IF Truthy(Head(values)) THEN Head(values)
    ELSE FirstSet(Tail(values))

\* The subject an event shows: the substitution's, else the lesson's.
SubjectShown(it) ==
    FirstSet(<<_get_nested_value(SubstitutionOf(it), <<"subject", "name">>),
               _get_nested_value(SubstitutionOf(it), <<"Subject", "Name">>),
               _get_nested_value(it, <<"subject", "name">>),
               _get_nested_value(it, <<"Subject", "Name">>)>>)

\* The room an event shows: the substitution's, else the lesson's.
RoomShown(it) ==
    FirstSet(<<_get_nested_value(SubstitutionOf(it), <<"room", "code">>),
               _get_nested_value(SubstitutionOf(it), <<"Room", "Code">>),
               _get_nested_value(it, <<"room", "code">>),
               _get_nested_value(it, <<"Room", "Code">>)>>)

\* The keys under which a record names teachers or the reason of a change.
TeacherKeys ==
    {"teacher_primary", "teacherPrimary", "TeacherPrimary",
     "teacher_secondary", "teacherSecondary", "TeacherSecondary",
     "teacher_secondary2", "teacherSecondary2", "TeacherSecondary2",
     "teacher_absence_effect_name", "TeacherAbsenceEffectName", "reason", "Reason"}

\* The lesson record without its substitution sub-record.
BaseLesson(it) ==
    [it EXCEPT !.f = [k \in DOMAIN it.f \ {"substitution", "Substitution"} |-> it.f[k]]]

\* C18: the event of a lesson with a substitution shows the substitution's
\* subject and room where the substitution supplies them and the lesson's
\* otherwise, and when the substitution names no teacher the description is
\* the one of the lesson's own teachers.
C18_SubstitutionFallsBackPerField ==
    (built.op = "_build_lesson_event" /\ built.out.t = "event" /\ Truthy(SubstitutionOf(item))) =>
        /\ Truthy(SubjectShown(item)) =>
              SubSeq(built.out.summary.s, 1, Len(PyStr(SubjectShown(item)))) = PyStr(SubjectShown(item))
        /\ built.out.location = IF Truthy(RoomShown(item))
                                THEN Str(<<"S", "a", "l", "a", " ">> \o PyStr(RoomShown(item)))
                                ELSE None
        /\ (DOMAIN SubstitutionOf(item).f \cap TeacherKeys = {}
            /\ ~IsRaise(_build_event_description("schedule", BaseLesson(item)))) =>
              built.out.description = _build_event_description("schedule", BaseLesson(item))

\* The weekday field of a lesson record as it is handed to the normalisation.
WeekdayField(it) == _get_value(it, <<"day", "weekday", "day_of_week", "dayOfWeek">>)

\* C21: the weekday normalisation yields an ISO weekday in 1..7 or nothing
\* and never raises; a number in 0..6 is read as zero-based and becomes one
\* more (1, a zero-based Tuesday, becomes 2), 7 stays 7, and a number outside
\* 0..7 or a text that is no number yields nothing.
C21_WeekdayNormalized ==
    built.op = "_normalize_weekday_value" =>
        /\ built.out = None \/ (built.out.t = "int" /\ built.out.i \in 1..7)
        /\ (WeekdayField(item).t = "int" /\ WeekdayField(item).i \in 0..6) =>
              built.out = Num(WeekdayField(item).i + 1)
        /\ WeekdayField(item) = Num(7) => built.out = Num(7)
        /\ (WeekdayField(item).t = "int" /\ WeekdayField(item).i \notin 0..7) => built.out = None
        /\ (WeekdayField(item).t = "str" /\ ~AllDigits(StrStrip(WeekdayField(item).s))) =>
              built.out = None

\* The start date of an exam record: its deadline if it has one, else the
\* current date; the lesson date is not read.
ExamStart(it, today) ==
    IF Truthy(_get_value(it, <<"deadline", "deadlineAt">>))
    THEN CivilDateOf(_get_value(it, <<"deadline", "deadlineAt">>))
    ELSE Date(today)

\* The summary of an exam record.
ExamSummary(it) ==
    IF Truthy(_get_nested_value(it, <<"subject", "name">>))
    THEN Str(_get_nested_value(it, <<"subject", "name">>).s \o <<" ", "U2013", " ", "S", "p", "r", "a", "w", "d", "z", "i", "a", "n">>)
    ELSE Str(<<"S", "p", "r", "a", "w", "d", "z", "i", "a", "n">>)

\* C22: an exam record, mapping or object, gives an all-day event of one day
\* that starts on the deadline date if there is one and today otherwise,
\* whatever the lesson date, with summary "{subject} – Sprawdzian" (or
\* "Sprawdzian").
C22_ExamEvent ==
    (built.op = "_build_event" /\ built.kind = "exams" /\ item \in DeadlineRecords) =>
        /\ built.out.t = "event"
        /\ built.out.start = ExamStart(item, built.today)
        /\ built.out.end = Date(built.out.start.ord + 1)
        /\ built.out.summary = ExamSummary(item)


-----------------------------------------------------------------------------
(* The date coercers run on one date or text *)

\* _coerce_date_value of coordinator.py, which also takes dates and datetimes.
coordinator_coerce_date_value(value) ==
    IF value.t = "datetime" THEN Date(value.ord)
    ELSE IF value.t = "date" THEN value
    ELSE IF value.t = "str"
    THEN FirstParsedDate(date_fromisoformat(value.s), datetime_fromisoformat(ReplaceZ(value.s)))
    ELSE None

\* Civil dates: the first and the last one, the ends of months, leap days and
\* the days around them.
CoerceDates ==
    { Ymd2Ord(1, 1, 1), Ymd2Ord(9999, 12, 31), Ymd2Ord(999, 12, 31), Ymd2Ord(1000, 1, 1),
      Ymd2Ord(1900, 2, 28), Ymd2Ord(1900, 3, 1), Ymd2Ord(2000, 2, 29), Ymd2Ord(2100, 2, 28) }
    \cup { Ymd2Ord(2023, m, DaysInMonth(2023, m)) : m \in 1..12 }
    \cup { Ymd2Ord(2024, m, 1) : m \in 1..12 }
    \cup (Ymd2Ord(2024, 2, 20)..Ymd2Ord(2024, 3, 5))
    \cup (Ymd2Ord(2024, 12, 25)..Ymd2Ord(2025, 1, 5))

\* Texts that are no date.
OtherTexts ==
    { <<>>, <<"x">>, <<"s", "o", "o", "n">>, <<"n", "e", "x", "t", " ", "w", "e", "e", "k">>, <<"2", "0", "2", "4", "-", "0", "2", "-", "3", "0">>, <<"2", "0", "2", "4", "-", "1", "3", "-", "0", "1">>, <<"2", "0", "2", "4", "-", "1", "-", "1">>,
      <<"2", "0", "2", "4", "-", "1", "0", "-", "1", "4", "T">>, <<"2", "0", "2", "4", "-", "1", "0", "-", "1", "4", "T", "2", "4", ":", "0", "0">>, <<"2", "0", "2", "4", "-", "1", "0", "-", "1", "4", "Z", "0", "0">>, <<"Z">>, <<"1", "0", "0", "0", "0", "-", "0", "1", "-", "0", "1">>,
      <<"U00B2", "0", "2", "4", "-", "1", "0", "-", "1", "4">>, <<"2", "0", "2", "4", "-", "1", "0", "-", "1", "4", "T", "1", "0", ":", "0", "0", ":", "0", "0", "Z", "+">>, <<"0", "0", "0", "0", "-", "0", "1", "-", "0", "1">>, <<"2", "0", "2", "3", "-", "0", "2", "-", "2", "9">>,
      <<"2", "0", "2", "4", "-", "W", "5", "4", "-", "1">>, <<"2", "0", "2", "4", "-", "W", "0", "0", "-", "1">>, <<"2", "0", "2", "1", "-", "W", "5", "3", "-", "1">>, <<"2", "0", "2", "4", "-", "1", "0", "-", "1", "4", "T", "1", "0", ":", "6", "0">>, <<"2", "4", "-", "1", "0", "-", "1", "4">>,
      <<"2", "0", "2", "4", "/", "1", "0", "/", "1", "4">>, <<"1", "4", ".", "1", "0", ".", "2", "0", "2", "4">>, <<"2", "0", "2", "4", "-", "1", "0">>, <<"2", "0", "2", "4", "-", "1", "0", "-", "1", "4", "T", "1", "0", ":", "0", "0", ":", "0", "0", "+", "2", "5", ":", "0", "0">> }

\* Texts of ISO dates and datetimes.
IsoTexts ==
    { <<"2", "0", "2", "4", "-", "1", "0", "-", "1", "4">>, <<"2", "0", "2", "4", "1", "0", "1", "4">>, <<"2", "0", "2", "4", "-", "W", "4", "2", "-", "1">>, <<"2", "0", "2", "4", "W", "4", "2", "1">>, <<"2", "0", "2", "4", "-", "W", "4", "2">>,
      <<"2", "0", "2", "0", "-", "W", "5", "3", "-", "7">>, <<"2", "0", "2", "4", "-", "1", "0", "-", "1", "4", "T", "0", "0", ":", "0", "0", ":", "0", "0", "Z">>, <<"2", "0", "2", "4", "-", "1", "0", "-", "1", "4", " ", "1", "0", ":", "0", "0">>, <<"2", "0", "2", "4", "-", "1", "0", "-", "1", "4", "T", "1", "0">>,
      <<"2", "0", "2", "4", "-", "1", "0", "-", "1", "4", "T", "1", "0", "0", "0">>, <<"2", "0", "2", "4", "-", "1", "0", "-", "1", "4", "T", "1", "0", ":", "0", "0", ":", "0", "0", ".", "5">>, <<"2", "0", "2", "4", "-", "1", "0", "-", "1", "4", "T", "1", "0", ":", "0", "0", ":", "0", "0", ",", "5">>,
      <<"2", "0", "2", "4", "-", "1", "0", "-", "1", "4", "T", "1", "0", ":", "0", "0", "+", "0", "1", ":", "0", "0">>, <<"2", "0", "2", "4", "-", "1", "0", "-", "1", "4", "T", "1", "0", ":", "0", "0", "+", "0", "1", "0", "0">>, <<"2", "0", "2", "4", "-", "1", "0", "-", "1", "4", "T", "1", "0", ":", "0", "0", "Z">>,
      <<"2", "0", "2", "4", "-", "1", "2", "-", "3", "1", "T", "2", "3", ":", "5", "9", ":", "5", "9", "-", "0", "5", ":", "0", "0">>, <<"2", "0", "2", "4", "1", "0", "1", "4", "T", "1", "0", "0", "0", "0", "0">> }

\* Texts that are a date followed by something that is not ISO 8601.
LooseTexts ==
    { <<"2", "0", "2", "4", "-", "1", "0", "-", "1", "4", "Z">>, <<"2", "0", "2", "4", "-", "1", "0", "-", "1", "4", "x", "1", "0">>, <<"2", "0", "2", "4", "-", "1", "0", "-", "1", "4", "x", "1", "0", ":", "0", "0">>, <<"2", "0", "2", "4", "-", "1", "0", "-", "1", "4", "_", "0", "8", ":", "3", "0">> }

CoerceInputs ==
    { Date(o) : o \in CoerceDates }
    \cup { Str(s) : s \in OtherTexts \cup IsoTexts \cup LooseTexts }
    \cup { None, Num(20241014), DateTimeIn(Ymd2Ord(2024, 10, 14), 10 * 3600, "naive") }

\* d.isoformat() given to _coerce_date_value of calendar.py.
CoerceIsoFormat ==
    /\ built = NotBuilt
    /\ item.t = "date"
    /\ built' = [op |-> "isoformat", kind |-> "none", tz |-> "UTC", today |-> 0,
                 out |-> _coerce_date_value(DateIsoFormat(item.ord))]
    /\ UNCHANGED <<data, last_error, account_info, pc, fetched, cycle, outcome, query, item>>

\* _coerce_date_value(value) of calendar.py on a text.
CoerceDateValue ==
    /\ built = NotBuilt
    /\ item.t = "str"
    /\ built' = [op |-> "_coerce_date_value", kind |-> "none", tz |-> "UTC", today |-> 0,
                 out |-> _coerce_date_value(item.s)]
    /\ UNCHANGED <<data, last_error, account_info, pc, fetched, cycle, outcome, query, item>>

\* _coerce_date_value(value) of coordinator.py on a value, and on the ISO text
\* of a date.
CoordinatorCoerceDateValue ==
    /\ built = NotBuilt
    /\ \E text \in BOOLEAN :
         /\ text => item.t = "date"
         /\ built' = [op |-> IF text THEN "coordinator isoformat" ELSE "coordinator",
                      kind |-> "none", tz |-> "UTC", today |-> 0,
                      out |-> coordinator_coerce_date_value(
                                  IF text THEN Str(DateIsoFormat(item.ord)) ELSE item)]
    /\ UNCHANGED <<data, last_error, account_info, pc, fetched, cycle, outcome, query, item>>

InitCoerce ==
    /\ item \in CoerceInputs
    /\ built = NotBuilt
    /\ data = None
    /\ last_error = None
    /\ account_info = None
    /\ pc = "idle"
    /\ fetched = NoFetch
    /\ cycle = 0
    /\ outcome = NoOutcome
    /\ query = NoQuery

NextCoerce == CoerceIsoFormat \/ CoerceDateValue \/ CoordinatorCoerceDateValue

SpecCoerce == InitCoerce /\ [][NextCoerce]_vars


-----------------------------------------------------------------------------
(* Properties of the date coercers, checked under SpecCoerce *)

\* The text a coercer was given.
CoercedText == built.op \in {"_coerce_date_value", "coordinator"} /\ item.t = "str"

\* The text is an ISO 8601 date: YYYY-MM-DD, YYYYMMDD or a week date.
IsoDateText(s) == ~IsRaise(date_fromisoformat(s))

\* The text is an ISO 8601 datetime: a date, "T" (or a space), a time and
\* possibly an offset, which a final "Z" may stand for.
IsoDateTimeText(s) ==
    /\ ~IsRaise(datetime_fromisoformat(ReplaceZ(s)))
    /\ At(s, FindIsoformatDatetimeSeparator(s) + 1) \in {"T", " "}
    /\ \A k \in 1..Len(s) : s[k] = "Z" => k = Len(s)

\* The date a text starts with, when it starts with one.
LeadingDates(s) ==
    { date_fromisoformat(SubSeq(s, 1, k)) : k \in {n \in {7, 8, 10} : n <= Len(s)} }

\* The ISO text of a date coerced back gives the date.
RoundTrip == built.op \in {"isoformat", "coordinator isoformat"} => built.out = item

-----------------------------------------------------------------------------
(* The field accessors run on one record *)

\* Records whose candidate keys are absent, present with no value, present
\* with an empty or false value, or present with a value.
AccessRecords ==
    { Record(shape, sub @@ flag @@ status @@ more) :
        shape \in Shapes,
        sub \in { NoFields,
                  "substitution" :> None,
                  "substitution" :> Dict(NoFields),
                  "Substitution" :> None,
                  "substitution" :> Bool(FALSE),
                  "substitution" :> Dict("subject" :> Dict("name" :> Str(<<"P", "E">>))) },
        flag \in { NoFields,
                   "is_substitution" :> Bool(TRUE),
                   "is_substitution" :> Bool(FALSE),
                   "isSubstitution" :> Bool(TRUE),
                   "replacement" :> Bool(TRUE),
                   "is_replacement" :> Bool(TRUE),
                   "isReplacement" :> Bool(TRUE) },
        status \in { NoFields,
                     "status" :> None,
                     "status" :> Str(<<"S", "U", "B", "S", "T", "I", "T", "U", "T", "I", "O", "N">>),
                     "status" :> Str(<<"R", "e", "p", "l", "a", "c", "e", "m", "e", "n", "t">>),
                     "status" :> Str(<<"p", "l", "a", "n", "n", "e", "d">>) },
        more \in { NoFields,
                   "subject" :> Dict("name" :> Str(<<"M", "a", "t", "h">>)),
                   ("subject" :> None) @@ ("Subject" :> Obj("Name" :> Str(<<"A", "r", "t">>))),
                   "subject" :> Obj("name" :> Num(0)),
                   ("deadline" :> None) @@ ("date_" :> Date(Ymd2Ord(2024, 10, 10))),
                   ("deadline" :> Str(<<>>)) @@ ("deadlineAt" :> Date(Ymd2Ord(2024, 10, 11))),
                   ("date" :> Bool(FALSE)) @@ ("dateAt" :> Date(Ymd2Ord(2024, 10, 12))) } }

\* The candidate keys the builders pass to _get_value.
KeyLists ==
    { <<"deadline", "deadlineAt">>,
      <<"date_", "date", "dateAt">>,
      <<"deadline", "date_">>,
      <<"substitution", "Substitution">>,
      <<"substitution", "is_substitution", "isSubstitution", "replacement",
        "is_replacement", "isReplacement">>,
      <<"subject", "Subject">>,
      <<"status">>,
      <<>> }

\* The paths the builders pass to _get_nested_value.
KeyPaths ==
    { <<"subject", "name">>,
      <<"Subject", "Name">>,
      <<"substitution", "subject", "name">>,
      <<"Substitution", "Subject", "Name">>,
      <<"status", "name">>,
      <<"subject">> }

\* _get_value(item, *keys)
GetValue ==
    /\ built = NotBuilt
    /\ \E keys \in KeyLists :
         built' = [op |-> "_get_value", kind |-> "none", tz |-> "UTC", today |-> 0,
                   keys |-> keys, out |-> _get_value(item, keys)]
    /\ UNCHANGED <<data, last_error, account_info, pc, fetched, cycle, outcome, query, item>>

\* _get_nested_value(item, *keys)
GetNestedValue ==
    /\ built = NotBuilt
    /\ \E keys \in KeyPaths :
         built' = [op |-> "_get_nested_value", kind |-> "none", tz |-> "UTC", today |-> 0,
                   keys |-> keys, out |-> _get_nested_value(item, keys)]
    /\ UNCHANGED <<data, last_error, account_info, pc, fetched, cycle, outcome, query, item>>

\* _is_substitution_lesson(item)
IsSubstitutionLesson ==
    /\ built = NotBuilt
    /\ built' = [op |-> "_is_substitution_lesson", kind |-> "schedule", tz |-> "UTC",
                 today |-> 0, keys |-> <<>>, out |-> Bool(_is_substitution_lesson(item))]
    /\ UNCHANGED <<data, last_error, account_info, pc, fetched, cycle, outcome, query, item>>

InitAccess ==
    /\ item \in AccessRecords
    /\ built = NotBuilt
    /\ data = None
    /\ last_error = None
    /\ account_info = None
    /\ pc = "idle"
    /\ fetched = NoFetch
    /\ cycle = 0
    /\ outcome = NoOutcome
    /\ query = NoQuery

NextAccess == GetValue \/ GetNestedValue \/ IsSubstitutionLesson

SpecAccess == InitAccess /\ [][NextAccess]_vars

-----------------------------------------------------------------------------
(* Properties of the field accessors, checked under SpecAccess *)

\* The flat fields that mark a lesson as a substitution or a replacement.
SubstitutionFlags ==
    {"is_substitution", "isSubstitution", "replacement", "is_replacement", "isReplacement"}

\* C19: a lesson is a substitution exactly when it has a substitution
\* sub-record under either key, whatever its value, or one of its flat
\* substitution or replacement flags is true, or its status is SUBSTITUTION
\* or REPLACEMENT in any letter case.
C19_SubstitutionByAnySignal ==
    built.op = "_is_substitution_lesson" =>
        built.out.b =
            \/ DOMAIN item.f \cap {"substitution", "Substitution"} # {}
            \/ \E k \in DOMAIN item.f \cap SubstitutionFlags : item.f[k] = Bool(TRUE)
            \/ /\ "status" \in DOMAIN item.f
               /\ item.f["status"].t = "str"
               /\ StrUpper(item.f["status"].s) \in {<<"S", "U", "B", "S", "T", "I", "T", "U", "T", "I", "O", "N">>, <<"R", "E", "P", "L", "A", "C", "E", "M", "E", "N", "T">>}

\* The positions of the candidate keys the record has.
PresentAt(rec, keys) == {n \in 1..Len(keys) : keys[n] \in DOMAIN rec.f}

\* The smallest of a set of positions.
Smallest(positions) == CHOOSE n \in positions : \A m \in positions : n <= m

\* Nothing is there to read.
Absent == [t |-> "absent"]

\* What is found k keys down the path from a value, or Absent.
RECURSIVE Level(_, _, _)
Level(v, keys, k) ==
    IF k = 0 THEN v
    ELSE LET above == Level(v, keys, k - 1)
         IN  IF above.t \in {"dict", "obj"} /\ keys[k] \in DOMAIN above.f
             THEN above.f[keys[k]]
             ELSE Absent

\* C20: _get_value returns the value under the first candidate key the
\* record has, whatever that value is, and nothing only when the record has
\* none of them; _get_nested_value never raises, returns nothing when a level
\* above the last is absent or holds nothing, and otherwise what the path
\* leads to.
C20_FirstPresentKeyWins ==
    /\ built.op = "_get_value" =>
         built.out = IF PresentAt(item, built.keys) = {} THEN None
                     ELSE item.f[built.keys[Smallest(PresentAt(item, built.keys))]]
    /\ built.op = "_get_nested_value" =>
         /\ ~IsRaise(built.out)
         /\ IF \E k \in 1..Len(built.keys) : Level(item, built.keys, k) \in {Absent, None}
            THEN built.out = None
            ELSE built.out = Level(item, built.keys, Len(built.keys))

\* A deadline present with no value is returned although the lesson date
\* that follows in the candidates has one.
C20_NullDeadlineShortCircuits ==
    /\ built.op = "_get_value"
    /\ built.keys = <<"deadline", "date_">>
    /\ {"deadline", "date_"} \subseteq DOMAIN item.f
    /\ item.f["deadline"] = None
    /\ item.f["date_"] = Date(Ymd2Ord(2024, 10, 10))
    /\ built.out = None


-----------------------------------------------------------------------------
(* IrisApi.get_schedule requests the pages of the schedule *)

INT_MIN == -2147483647 - 1

\* page_size, DEFAULT_PAGE_SIZE in the source, as small as keeps full and
\* short pages apart.
PageSize == 2

\* The largest Id the remote source puts on an entry.
MaxId == 3

\* An entry of a page: a mapping with an Id, or one without.
PageEntries == { Dict("Id" :> Num(k)) : k \in 1..MaxId } \cup { Dict(NoFields) }

\* The pages the remote source can answer a request with.
Envelopes == UNION { [1..k -> PageEntries] : k \in 0..PageSize }

RECURSIVE MaxIdLoop(_, _)
MaxIdLoop(max_id, envelope) ==
    IF envelope = <<>> THEN max_id
    ELSE LET entry == Head(envelope)
             entry_id == IF entry.t = "dict" THEN DictGet(entry, "Id") ELSE None
         IN  MaxIdLoop(IF entry_id.t = "int" /\ (max_id = None \/ entry_id.i > max_id.i)
                       THEN entry_id ELSE max_id,
                       Tail(envelope))

_max_schedule_id(envelope) == MaxIdLoop(None, envelope)

\* The Ids of the entries of a page; 0 stands for an entry without Id.
IdsOf(envelope) ==
    { IF "Id" \in DOMAIN envelope[n].f THEN envelope[n].f["Id"].i ELSE 0 : n \in 1..Len(envelope) }

\* The locals of get_schedule while its loop runs, and what it returned.
\* items is kept as the Ids it holds: how often an entry was collected has no
\* part in what the loop does next.
PageLoop(next_last_id, items, out) ==
    [op |-> "get_schedule", kind |-> "schedule", tz |-> "UTC", today |-> 0,
     next_last_id |-> next_last_id, items |-> items, out |-> out]

\* One pass of the while loop on the page the request returned.
AfterPage(loop, envelope) ==
    IF envelope = <<>> THEN PageLoop(loop.next_last_id, loop.items, List(loop.items))
    ELSE LET items == loop.items \cup IdsOf(envelope)
             max_id == _max_schedule_id(envelope)
         IN  IF Len(envelope) < PageSize THEN PageLoop(loop.next_last_id, items, List(items))
             ELSE IF max_id = None \/ max_id.i = loop.next_last_id
             THEN PageLoop(loop.next_last_id, items, List(items))
             ELSE PageLoop(max_id.i, items, None)

\* get_schedule has left its loop and returned.
Returned == built.op = "get_schedule" /\ built.out # None

\* envelope = await self._http.request(...), and the rest of the pass.
RequestPage ==
    /\ built.op = "get_schedule"
    /\ built.out = None
    /\ \E envelope \in Envelopes :
         /\ item' = List(envelope)
         /\ built' = AfterPage(built, envelope)
    /\ UNCHANGED <<data, last_error, account_info, pc, fetched, cycle, outcome, query>>

InitPages ==
    /\ item = None
    /\ built = PageLoop(INT_MIN, {}, None)
    /\ data = None
    /\ last_error = None
    /\ account_info = None
    /\ pc = "schedule"
    /\ fetched = NoFetch
    /\ cycle = 1
    /\ outcome = NoOutcome
    /\ query = NoQuery

NextPages == RequestPage

\* The event loop runs the coroutine on when the awaited request has answered.
SpecPages == InitPages /\ [][NextPages]_vars /\ WF_vars(RequestPage)

-----------------------------------------------------------------------------
(* Properties of the pagination, checked under SpecPages *)

\* C24: get_schedule returns, whatever pages the remote source answers with:
\* it does not go on requesting full pages for ever.
C24_PaginationTerminates == <>Returned


-----------------------------------------------------------------------------
(* The config flow, async_setup_entry and async_unload_entry on one token    *)
(* file.  Here item is the token file, built the last result of the flow,    *)
(* data the host (its config entries and hass.data[DOMAIN]), fetched the     *)
(* EduVulcanApi objects created so far, pc the position of the setup and     *)
(* cycle the number of setups started.                                       *)

\* The results of a config flow step.
FlowCreateEntry(title, uid, name) ==
    [t |-> "flow", type |-> "create_entry", title |-> title, uid |-> uid, name |-> name]

FlowForm(errors) == [t |-> "flow", type |-> "form", errors |-> errors]

FlowAbort(reason) == [t |-> "flow", type |-> "abort", reason |-> reason]

\* The else branch of async_step_user on the jwt_payload of a file that was
\* read, with the unique ids configured already.
StepUserOnPayload(jwt_payload, configured) ==
    IF IsRaise(JsonGet(jwt_payload, "uid")) THEN JsonGet(jwt_payload, "uid")
    ELSE IF DictGet(jwt_payload, "caps") # PREMIUM_CAPS
    THEN FlowForm("base" :> "premium_required")
    ELSE IF ~Truthy(DictGet(jwt_payload, "uid")) \/ ~Truthy(DictGet(jwt_payload, "name"))
    THEN FlowForm("base" :> "token_invalid")
    ELSE IF DictGet(jwt_payload, "uid") \in configured
    THEN FlowAbort("already_configured")
    ELSE FlowCreateEntry(DictGet(jwt_payload, "name"), DictGet(jwt_payload, "uid"),
                         DictGet(jwt_payload, "name"))

\* EduVulcanConfigFlow.async_step_user on a token file.
async_step_user(file, configured) ==
    IF file.t = "none" THEN FlowForm("base" :> "token_missing")
    ELSE IF IsRaise(file)
    THEN (IF file.exc \in {"OSError", "JSONDecodeError"}
          THEN FlowForm("base" :> "token_invalid")
          ELSE file)
    ELSE IF file.t # "dict" THEN JsonGet(file, "jwt_payload")
    ELSE StepUserOnPayload(Or(DictGet(file, "jwt_payload"), Dict(NoFields)), configured)

\* The host: the unique ids of its config entries, and the API object that
\* hass.data[DOMAIN][entry.entry_id] holds (its number, 0 for none).
Hass(entries, stored) == [t |-> "hass", entries |-> entries, stored |-> stored]

\* How many times the host sets the entry up.
MaxSetups == 2

\* The jwt_payload values of the token files.
PayloadOptions ==
    { NoFields,
      "jwt_payload" :> None,
      "jwt_payload" :> Str(<<"e", "y", "J">>),
      "jwt_payload" :> List(<<>>) }
    \cup { "jwt_payload" :> Dict(name @@ uid @@ caps) :
             name \in { NoFields, "name" :> Str(<<"J", "a", "n">>), "name" :> Str(<<>>) },
             uid \in { NoFields, "uid" :> Str(<<"u", "-", "1">>), "uid" :> None },
             caps \in { NoFields, "caps" :> PREMIUM_CAPS, "caps" :> Str(<<"[", "]">>),
                        "caps" :> List(<<Str(<<"E", "D", "U", "V", "U", "L", "C", "A", "N", "_", "P", "R", "E", "M", "I", "U", "M">>)>>) } }

\* The token files: missing, unreadable, no JSON, JSON that is no object, and
\* objects with and without each field.
EntryTokenFiles ==
    { None,
      RaiseMsg("JSONDecodeError", <<"E", "x", "p", "e", "c", "t", "i", "n", "g", " ", "v", "a", "l", "u", "e">>),
      RaiseMsg("UnicodeDecodeError", <<"i", "n", "v", "a", "l", "i", "d", " ", "s", "t", "a", "r", "t", " ", "b", "y", "t", "e">>),
      RaiseMsg("OSError", <<"P", "e", "r", "m", "i", "s", "s", "i", "o", "n", " ", "d", "e", "n", "i", "e", "d">>),
      List(<<>>),
      Str(<<"e", "y", "J">>) }
    \cup { Dict(jwt @@ tenant @@ payload) :
             jwt \in { NoFields, "jwt" :> Str(<<"e", "y", "J">>) },
             tenant \in { NoFields, "tenant" :> Str(<<"p", "o", "w", "i", "a", "t">>), "tenant" :> Str(<<>>) },
             payload \in PayloadOptions }

\* The config flow runs its user step.
AsyncStepUser ==
    /\ built' = [op |-> "async_step_user", kind |-> "none", tz |-> "UTC", today |-> 0,
                 configured |-> data.entries,
                 out |-> async_step_user(item, data.entries)]
    /\ data' = IF built'.out.t = "flow" /\ built'.out.type = "create_entry"
               THEN Hass(data.entries \cup {built'.out.uid}, data.stored)
               ELSE data
    /\ UNCHANGED <<last_error, account_info, pc, fetched, cycle, outcome, query, item>>

\* async_setup_entry up to its first await: api = EduVulcanApi(hass).
StartSetup ==
    /\ pc = "idle"
    /\ data.entries # {}
    /\ data.stored = 0
    /\ cycle < MaxSetups
    /\ cycle' = cycle + 1
    /\ fetched' = Append(fetched, "open")
    /\ pc' = "load_token"
    /\ UNCHANGED <<data, last_error, account_info, outcome, query, item, built>>

\* await api.async_load_token(): what it raises leaves async_setup_entry.
SetupLoadToken ==
    /\ pc = "load_token"
    /\ IF IsRaise(async_load_token(item))
       THEN pc' = "idle" /\ outcome' = async_load_token(item)
       ELSE pc' = "first_refresh" /\ UNCHANGED outcome
    /\ UNCHANGED <<data, last_error, account_info, fetched, cycle, query, item, built>>

\* await coordinator.async_config_entry_first_refresh(), and on success
\* hass.data[DOMAIN][entry.entry_id] = {"api": api, ...}.
SetupFirstRefresh ==
    /\ pc = "first_refresh"
    /\ \E refreshed \in BOOLEAN :
         IF refreshed
         THEN pc' = "forward" /\ data' = Hass(data.entries, Len(fetched)) /\ UNCHANGED outcome
         ELSE /\ pc' = "idle"
              /\ outcome' = RaiseMsg("ConfigEntryNotReady", <<"C", "a", "n", "n", "o", "t", " ", "c", "o", "n", "n", "e", "c", "t", " ", "t", "o", " ", "h", "o", "s", "t">>)
              /\ UNCHANGED data
    /\ UNCHANGED <<last_error, account_info, fetched, cycle, query, item, built>>

\* await hass.config_entries.async_forward_entry_setups(entry, PLATFORMS)
SetupForward ==
    /\ pc = "forward"
    /\ pc' = "loaded"
    /\ outcome' = Updated
    /\ UNCHANGED <<data, last_error, account_info, fetched, cycle, query, item, built>>

\* async_unload_entry: the platforms unload or not; if they do, the entry is
\* popped from hass.data and its API closed.
UnloadEntry ==
    /\ pc = "loaded"
    /\ \E unload_ok \in BOOLEAN :
         IF unload_ok
         THEN /\ pc' = "idle"
              /\ data' = Hass(data.entries, 0)
              /\ fetched' = [fetched EXCEPT ![data.stored] = "closed"]
         ELSE UNCHANGED <<pc, data, fetched>>
    /\ UNCHANGED <<last_error, account_info, cycle, outcome, query, item, built>>

InitEntry ==
    /\ item \in EntryTokenFiles
    /\ built = NotBuilt
    /\ data = Hass({}, 0)
    /\ fetched = <<>>
    /\ pc = "idle"
    /\ cycle = 0
    /\ outcome = NoOutcome
    /\ last_error = None
    /\ account_info = None
    /\ query = NoQuery

NextEntry ==
    \/ AsyncStepUser
    \/ StartSetup
    \/ SetupLoadToken
    \/ SetupFirstRefresh
    \/ SetupForward
    \/ UnloadEntry

SpecEntry == InitEntry /\ [][NextEntry]_vars


-----------------------------------------------------------------------------
(* Properties of the config flow and the setup, checked under SpecEntry *)

\* C26: no EduVulcanApi is left open and out of reach: an API object that is
\* not closed is the one hass.data holds for the entry, or the one a setup
\* that is still running has just created; so the API of a setup that failed
\* at the token or at the first refresh is closed, as the API of an unloaded
\* entry is.
C26_NoApiLeftOpen ==
    \A n \in 1..Len(fetched) :
        fetched[n] = "open" =>
            \/ data.stored = n
            \/ n = Len(fetched) /\ pc \in {"load_token", "first_refresh"}

\* The token file exists and json.load returned a value.
ParsedJson(file) == file.t # "none" /\ ~IsRaise(file)

\* A field of the jwt_payload of a token file, or None where there is none.
PayloadField(file, key) ==
    IF /\ file.t = "dict"
       /\ "jwt_payload" \in DOMAIN file.f
       /\ file.f["jwt_payload"].t = "dict"
       /\ key \in DOMAIN file.f["jwt_payload"].f
    THEN file.f["jwt_payload"].f[key]
    ELSE None

\* The token file is one the config flow is to accept.
FlowValid(file) ==
    /\ ParsedJson(file)
    /\ PayloadField(file, "caps") = PREMIUM_CAPS
    /\ Truthy(PayloadField(file, "uid"))
    /\ Truthy(PayloadField(file, "name"))

\* C28: the user step creates an entry exactly when the token file exists,
\* parses as JSON, has the premium caps and a uid and a name, and the uid is
\* not configured yet; in every other case it shows the form again with one
\* error code, and caps that differ give premium_required whether or not uid
\* and name are there.
C28_EntryIffTokenValid ==
    built.op = "async_step_user" =>
        IF FlowValid(item) /\ PayloadField(item, "uid") \notin built.configured
        THEN built.out.t = "flow" /\ built.out.type = "create_entry"
        ELSE /\ built.out.t = "flow"
             /\ built.out.type = "form"
             /\ DOMAIN built.out.errors = {"base"}
             /\ (ParsedJson(item) /\ PayloadField(item, "caps") # PREMIUM_CAPS) =>
                   built.out.errors["base"] = "premium_required"

\* C29: the token file the config flow created the entry from passes
\* async_load_token when the entry is set up: the setup never ends at the
\* token.
C29_FlowAcceptedTokenLoads ==
    [][(pc = "load_token" /\ pc' # "load_token") => pc' = "first_refresh"]_vars


-----------------------------------------------------------------------------
(* The fetch window of the coordinator.  Here item is today, date.today(),   *)
(* and built the window _resolve_date_range answers with.                    *)

\* date(y, m, d)
DateYmd(y, m, d) == DateOfFields([ok |-> TRUE, y |-> y, m |-> m, d |-> d])

\* The school year end with 31 August already counted to the next year.
SchoolYearEndStrict(today) ==
    LET end_of_august == DateYmd(Ord2Ymd(today.ord).y, 8, 31)
    IN  IF today.ord < end_of_august.ord
        THEN end_of_august
        ELSE DateYmd(Ord2Ymd(today.ord).y + 1, 8, 31)

_get_school_year_start_date(today) ==
    LET end_of_august == DateYmd(Ord2Ymd(today.ord).y, 8, 31)
    IN  IF today.ord <= end_of_august.ord
        THEN DateYmd(Ord2Ymd(today.ord).y - 1, 9, 1)
        ELSE DateYmd(Ord2Ymd(today.ord).y, 9, 1)

_get_school_year_end_date(today) ==
    LET end_of_august == DateYmd(Ord2Ymd(today.ord).y, 8, 31)
    IN  IF today.ord <= end_of_august.ord
        THEN end_of_august
        ELSE DateYmd(Ord2Ymd(today.ord).y + 1, 8, 31)

\* The tuple _resolve_date_range returns.
DateRange(start, end) == [t |-> "range", start |-> start, end |-> end]

_resolve_date_range(today) ==
    DateRange(_get_school_year_start_date(today), _get_school_year_end_date(today))

\* The years the clock of the host runs through.
FirstRangeYear == 2023

LastRangeYear == 2025

RangeDays == Ymd2Ord(FirstRangeYear, 1, 1) .. Ymd2Ord(LastRangeYear, 12, 31)

\* _async_update_data takes today from the clock and resolves the window.
ResolveDateRange ==
    /\ built = NotBuilt
    /\ built' = [op |-> "_resolve_date_range", kind |-> "none", tz |-> "UTC", today |-> item.ord,
                 out |-> _resolve_date_range(item)]
    /\ UNCHANGED <<data, last_error, account_info, pc, fetched, cycle, outcome, query, item>>

InitRange ==
    /\ item \in { Date(o) : o \in RangeDays }
    /\ built = NotBuilt
    /\ data = None
    /\ fetched = None
    /\ pc = "idle"
    /\ cycle = 0
    /\ outcome = NoOutcome
    /\ last_error = None
    /\ account_info = None
    /\ query = NoQuery

NextRange == ResolveDateRange

SpecRange == InitRange /\ [][NextRange]_vars

-----------------------------------------------------------------------------
(* Properties of the fetch window, checked under SpecRange *)

\* C30: the window resolved for today is the school year that holds today:
\* it starts on a 1 September, ends on the 31 August of the year after, and
\* today lies in it; on 31 August the window ends today and on 1 September
\* it starts today.
C30_WindowIsSchoolYearOfToday ==
    built.op = "_resolve_date_range" =>
        /\ built.out.start.t = "date"
        /\ built.out.end.t = "date"
        /\ Ord2Ymd(built.out.start.ord).m = 9
        /\ Ord2Ymd(built.out.start.ord).d = 1
        /\ Ord2Ymd(built.out.end.ord) = [y |-> Ord2Ymd(built.out.start.ord).y + 1, m |-> 8, d |-> 31]
        /\ built.out.start.ord <= item.ord
        /\ item.ord <= built.out.end.ord
        /\ (Ord2Ymd(item.ord).m = 8 /\ Ord2Ymd(item.ord).d = 31) => built.out.end = item
        /\ (Ord2Ymd(item.ord).m = 9 /\ Ord2Ymd(item.ord).d = 1) => built.out.start = item

\* The window resolved on 31 August 2024 is 1 September 2023 to that day.
C30_WindowEndsToday ==
    /\ built.op = "_resolve_date_range"
    /\ item = Date(Ymd2Ord(2024, 8, 31))
    /\ built.out = DateRange(Date(Ymd2Ord(2023, 9, 1)), Date(Ymd2Ord(2024, 8, 31)))


-----------------------------------------------------------------------------
(* eduvulcan_for_ha: EduVulcanApi.async_fetch_data on one token file.  Here  *)
(* item is the token file, fetched the Iris clients created so far, each by  *)
(* its HTTP session (api._http._client: "none", "open" or "closed"), pc the  *)
(* await the call stands at, cycle the number of calls and outcome what the  *)
(* call returns or raises.                                                   *)

\* A text cut at its commas.
RECURSIVE SplitCommas(_)
SplitCommas(s) ==
    IF \A i \in 1..Len(s) : s[i] # "," THEN <<s>>
    ELSE LET i == CHOOSE k \in 1..Len(s) : s[k] = "," /\ \A j \in 1..(k - 1) : s[j] # ","
         IN  <<SubSeq(s, 1, i - 1)>> \o SplitCommas(SubSeq(s, i + 1, Len(s)))

JSONDecodeError == RaiseMsg("JSONDecodeError", <<"E", "x", "p", "e", "c", "t", "i", "n", "g", " ", "v", "a", "l", "u", "e">>)

\* json.loads of a text that writes no array: a string without escapes, a
\* number in digits, null, true or false.
JsonScalar(s) ==
    IF /\ Len(s) >= 2
       /\ s[1] = "\"" /\ s[Len(s)] = "\""
       /\ \A i \in 2..(Len(s) - 1) : s[i] \notin {"\"", "\\"}
    THEN Str(SubSeq(s, 2, Len(s) - 1))
    ELSE IF s # <<>> /\ AllDigits(s) /\ (Len(s) = 1 \/ s[1] # "0") THEN Num(DigitsVal(s))
    ELSE IF s = <<"n", "u", "l", "l">> THEN None
    ELSE IF s = <<"t", "r", "u", "e">> THEN Bool(TRUE)
    ELSE IF s = <<"f", "a", "l", "s", "e">> THEN Bool(FALSE)
    ELSE JSONDecodeError

\* The elements of a JSON array of scalars, from the text between its brackets.
JsonElements(inner) ==
    [i \in 1..Len(SplitCommas(inner)) |-> JsonScalar(StrStrip(SplitCommas(inner)[i]))]

\* json.loads of a text writing a scalar or an array of scalars (strings
\* without commas).
json_loads(s) ==
    LET text == StrStrip(s)
    IN  IF text # <<>> /\ text[1] = "[" /\ text[Len(text)] = "]"
        THEN (IF StrStrip(SubSeq(text, 2, Len(text) - 1)) = <<>> THEN List(<<>>)
              ELSE IF \E i \in 1..Len(JsonElements(SubSeq(text, 2, Len(text) - 1))) :
                        IsRaise(JsonElements(SubSeq(text, 2, Len(text) - 1))[i])
              THEN JSONDecodeError
              ELSE List(JsonElements(SubSeq(text, 2, Len(text) - 1))))
        ELSE JsonScalar(text)

\* all(isinstance(item, str) for item in xs)
AllStr(xs) == \A i \in 1..Len(xs) : xs[i].t = "str"

_normalize_caps(caps_raw) ==
    IF caps_raw.t = "list"
    THEN (IF AllStr(caps_raw.xs) THEN caps_raw
          ELSE RaiseMsg("ConfigEntryNotReady", <<"I", "n", "v", "a", "l", "i", "d", " ", "c", "a", "p", "s", " ", "l", "i", "s", "t", ".">>))
    ELSE IF caps_raw.t = "str"
    THEN (IF IsRaise(json_loads(caps_raw.s)) THEN List(<<caps_raw>>)
          ELSE IF json_loads(caps_raw.s).t = "str" THEN List(<<json_loads(caps_raw.s)>>)
          ELSE IF json_loads(caps_raw.s).t = "list" /\ AllStr(json_loads(caps_raw.s).xs)
          THEN json_loads(caps_raw.s)
          ELSE RaiseMsg("ConfigEntryNotReady", <<"I", "n", "v", "a", "l", "i", "d", " ", "c", "a", "p", "s", " ", "s", "t", "r", "i", "n", "g", " ", "f", "o", "r", "m", "a", "t", ".">>))
    ELSE RaiseMsg("ConfigEntryNotReady", <<"I", "n", "v", "a", "l", "i", "d", " ", "c", "a", "p", "s", " ", "v", "a", "l", "u", "e", ".">>)

\* TokenData(jwt, tenant, caps) of eduvulcan_for_ha
ForHaTokenData(jwt, tenant, caps) == [t |-> "token", jwt |-> jwt, tenant |-> tenant, caps |-> caps]

\* d.get(key, default) of a mapping
DictGetDefault(d, key, default) == IF key \in DOMAIN d.f THEN d.f[key] ELSE default

\* _async_load_token_data from the jwt_payload on.
LoadTokenOnPayload(content, jwt_payload) ==
    IF jwt_payload.t # "dict" THEN JsonGet(jwt_payload, "caps")
    ELSE IF IsRaise(_normalize_caps(DictGetDefault(jwt_payload, "caps", List(<<>>))))
    THEN _normalize_caps(DictGetDefault(jwt_payload, "caps", List(<<>>)))
    ELSE IF ~Truthy(DictGet(content, "jwt")) \/ ~Truthy(DictGet(content, "tenant"))
    THEN RaiseMsg("ConfigEntryNotReady", <<"T", "o", "k", "e", "n", " ", "f", "i", "l", "e", " ", "m", "i", "s", "s", "i", "n", "g", " ", "r", "e", "q", "u", "i", "r", "e", "d", " ", "f", "i", "e", "l", "d", "s", ".">>)
    ELSE IF \A i \in 1..Len(_normalize_caps(DictGetDefault(jwt_payload, "caps", List(<<>>))).xs) :
              _normalize_caps(DictGetDefault(jwt_payload, "caps", List(<<>>))).xs[i] # Str(<<"E", "D", "U", "V", "U", "L", "C", "A", "N", "_", "P", "R", "E", "M", "I", "U", "M">>)
    THEN RaiseMsg("ConfigEntryNotReady", <<"T", "o", "k", "e", "n", " ", "f", "i", "l", "e", " ", "m", "i", "s", "s", "i", "n", "g", " ", "E", "D", "U", "V", "U", "L", "C", "A", "N", "_", "P", "R", "E", "M", "I", "U", "M", " ", "c", "a", "p", "a", "b", "i", "l", "i", "t", "y", ".">>)
    ELSE ForHaTokenData(DictGet(content, "jwt"), DictGet(content, "tenant"),
                        _normalize_caps(DictGetDefault(jwt_payload, "caps", List(<<>>))))

\* EduVulcanApi._async_load_token_data of eduvulcan_for_ha on a token file:
\* None when the file does not exist, the exception json.load raised on it,
\* or the value json.load returned.
_async_load_token_data(file) ==
    IF file.t = "none" THEN RaiseMsg("ConfigEntryNotReady", <<"T", "o", "k", "e", "n", " ", "f", "i", "l", "e", " ", "m", "i", "s", "s", "i", "n", "g", ".">>)
    ELSE IF IsRaise(file) THEN file
    ELSE IF file.t # "dict" THEN JsonGet(file, "jwt")
    ELSE LoadTokenOnPayload(file, DictGetDefault(file, "jwt_payload", Dict(NoFields)))

\* _async_close_api that leaves the session as it is.
CloseApiSkipped(client) == client

\* _async_close_api on the session of a client: a session that is there and
\* not closed is closed.
_async_close_api(client) ==
    IF client # "none" /\ client # "closed" THEN "closed" ELSE client

\* The session of a client after a request: the library opens it with the
\* client or with the first request.
AfterRequest(client) == IF client = "none" THEN {"none", "open"} ELSE {client}

\* How many times the coordinator calls async_fetch_data.
MaxFetches == 2

\* The caps values of the token files.
CapsOptions ==
    { NoFields,
      "caps" :> List(<<Str(<<"E", "D", "U", "V", "U", "L", "C", "A", "N", "_", "P", "R", "E", "M", "I", "U", "M">>)>>),
      "caps" :> List(<<>>),
      "caps" :> List(<<Num(7)>>),
      "caps" :> PREMIUM_CAPS,
      "caps" :> Str(<<"[", "\"", "A", "\"", ",", " ", "\"", "E", "D", "U", "V", "U", "L", "C", "A", "N", "_", "P", "R", "E", "M", "I", "U", "M", "\"", "]">>),
      "caps" :> Str(<<"E", "D", "U", "V", "U", "L", "C", "A", "N", "_", "P", "R", "E", "M", "I", "U", "M">>),
      "caps" :> Str(<<"\"", "E", "D", "U", "V", "U", "L", "C", "A", "N", "_", "P", "R", "E", "M", "I", "U", "M", "\"">>),
      "caps" :> Str(<<"[", "7", "]">>),
      "caps" :> Str(<<"7">>),
      "caps" :> Str(<<"n", "u", "l", "l">>),
      "caps" :> Num(7),
      "caps" :> None }

\* The token files: missing, no JSON, JSON that is no object, and objects with
\* and without each field.
ForHaTokenFiles ==
    { None, JSONDecodeError, List(<<>>) }
    \cup { Dict(jwt @@ tenant @@ payload) :
             jwt \in { NoFields, "jwt" :> Str(<<"e", "y", "J">>) },
             tenant \in { NoFields, "tenant" :> Str(<<"p", "o", "w", "i", "a", "t">>) },
             payload \in { NoFields, "jwt_payload" :> None }
                         \cup { "jwt_payload" :> Dict(caps) : caps \in CapsOptions } }

\* What a request of the Iris client raises when it fails.
FailedRequest == RaiseMsg("FailedRequestException", <<"C", "a", "n", "n", "o", "t", " ", "c", "o", "n", "n", "e", "c", "t", " ", "t", "o", " ", "h", "o", "s", "t">>)

\* async_fetch_data up to the client: the token is loaded, and when it loads
\* the credential and the client are created.
FetchLoadToken ==
    /\ pc = "idle"
    /\ cycle < MaxFetches
    /\ cycle' = cycle + 1
    /\ IF IsRaise(_async_load_token_data(item))
       THEN pc' = "idle" /\ outcome' = _async_load_token_data(item) /\ UNCHANGED fetched
       ELSE /\ pc' = "register"
            /\ outcome' = NoOutcome
            /\ \E client \in {"none", "open"} : fetched' = Append(fetched, client)
    /\ UNCHANGED <<data, last_error, account_info, query, item, built>>

\* One awaited request of the body of the try: it answers and the call goes
\* on to `next`, or it raises and the call goes to the finally clause.
Request(next) ==
    /\ \E client \in AfterRequest(fetched[Len(fetched)]) :
         fetched' = [fetched EXCEPT ![Len(fetched)] = client]
    /\ \E answered \in BOOLEAN :
         IF answered
         THEN pc' = next /\ UNCHANGED outcome
         ELSE pc' = "finally" /\ outcome' = FailedRequest
    /\ UNCHANGED <<data, last_error, account_info, cycle, query, item, built>>

\* await api.register_by_jwt(...)
FetchRegister ==
    /\ pc = "register"
    /\ Request("accounts")

\* accounts = await api.get_accounts(), and the check of the list: the request
\* fails, or answers with no account, or with accounts.
FetchAccounts ==
    /\ pc = "accounts"
    /\ \E client \in AfterRequest(fetched[Len(fetched)]) :
         fetched' = [fetched EXCEPT ![Len(fetched)] = client]
    /\ \E accounts \in {"failed", "none", "some"} :
         CASE accounts = "failed" -> pc' = "finally" /\ outcome' = FailedRequest
           [] accounts = "none" ->
                /\ pc' = "finally"
                /\ outcome' = RaiseMsg("ConfigEntryNotReady", <<"N", "o", " ", "a", "c", "c", "o", "u", "n", "t", "s", " ", "r", "e", "t", "u", "r", "n", "e", "d", " ", "b", "y", " ", "I", "r", "i", "s", " ", "A", "P", "I", ".">>)
           [] accounts = "some" -> pc' = "schedule" /\ UNCHANGED outcome
    /\ UNCHANGED <<data, last_error, account_info, cycle, query, item, built>>

\* lessons = await api.get_schedule(...)
FetchSchedule ==
    /\ pc = "schedule"
    /\ Request("homework")

\* homework = await api.get_homework(...)
FetchHomework ==
    /\ pc = "homework"
    /\ Request("exams")

\* exams = await api.get_exams(...), and the return statement: either way the
\* call goes to the finally clause.
FetchExams ==
    /\ pc = "exams"
    /\ \E client \in AfterRequest(fetched[Len(fetched)]) :
         fetched' = [fetched EXCEPT ![Len(fetched)] = client]
    /\ pc' = "finally"
    /\ outcome' \in {Updated, FailedRequest}
    /\ UNCHANGED <<data, last_error, account_info, cycle, query, item, built>>

\* The finally clause: await self._async_close_api(api); then the call
\* returns or raises what is pending.
FetchFinally ==
    /\ pc = "finally"
    /\ fetched' = [fetched EXCEPT ![Len(fetched)] = _async_close_api(fetched[Len(fetched)])]
    /\ pc' = "idle"
    /\ UNCHANGED <<data, last_error, account_info, cycle, outcome, query, item, built>>

InitFetchData ==
    /\ item \in ForHaTokenFiles
    /\ fetched = <<>>
    /\ pc = "idle"
    /\ cycle = 0
    /\ outcome = NoOutcome
    /\ built = NotBuilt
    /\ data = None
    /\ last_error = None
    /\ account_info = None
    /\ query = NoQuery

NextFetchData ==
    \/ FetchLoadToken
    \/ FetchRegister
    \/ FetchAccounts
    \/ FetchSchedule
    \/ FetchHomework
    \/ FetchExams
    \/ FetchFinally

SpecFetchData == InitFetchData /\ [][NextFetchData]_vars

-----------------------------------------------------------------------------
(* Properties of async_fetch_data, checked under SpecFetchData *)

\* async_fetch_data is not running: it has returned or raised, or was not
\* called yet.
FetchDataLeft == pc = "idle"

\* C27: when async_fetch_data has returned or raised, none of the clients it
\* created has an open session, whichever request failed; and a call that
\* fails at the token creates no client.
C27_ClientsClosedOnLeaving ==
    /\ [](FetchDataLeft => \A n \in 1..Len(fetched) : fetched[n] # "open")
    /\ [][(pc = "idle" /\ pc' = "idle") => (IsRaise(_async_load_token_data(item)) /\ fetched' = fetched)]_vars

\* A call that found no accounts has raised, with the session its client had
\* opened closed.
C27_ClosedAfterNoAccounts ==
    /\ FetchDataLeft
    /\ Len(fetched) = 1
    /\ fetched[1] = "closed"
    /\ outcome = RaiseMsg("ConfigEntryNotReady", <<"N", "o", " ", "a", "c", "c", "o", "u", "n", "t", "s", " ", "r", "e", "t", "u", "r", "n", "e", "d", " ", "b", "y", " ", "I", "r", "i", "s", " ", "A", "P", "I", ".">>)

=============================================================================
